---------------------------- MODULE Spec2Model ----------------------------
(***************************************************************************)
(* Model of the ARMv7 virtual machine monitor of                           *)
(* repos/os/src/server/vmm/main.cc: the shared CPU-state block, the CP15   *)
(* register file, the MMIO devices (GIC distributor, generic timer,        *)
(* system registers, PL011), the virtual GIC list registers and the        *)
(* handle_vm pause/dispatch/run cycle.                                     *)
(*                                                                         *)
(* 32-bit words that need their full width (registers, syndromes, CP15     *)
(* values) are pairs <<hi, lo>> of 16-bit halves, because the model        *)
(* checker's integers are signed 32-bit.  Fields whose values stay small   *)
(* (list registers, elrsr0, eisr, ...) are plain naturals.                 *)
(***************************************************************************)
EXTENDS Integers, Sequences, FiniteSets, TLC

(***************************************************************************)
(* 32-bit words and Genode::Register<32>::Bitfield                          *)
(***************************************************************************)
Half == 2 ^ 16

W(hi, lo) == <<hi, lo>>

Hi(w) == w[1]

Lo(w) == w[2]

Zero32 == W(0, 0)

Pow2(n) == 2 ^ n

\* Bitfield<shift, width>::get on a word
Bits(w, shift, width) ==
    IF shift + width <= 16
    THEN (Lo(w) \div Pow2(shift)) % Pow2(width)
    ELSE IF shift >= 16
         THEN (Hi(w) \div Pow2(shift - 16)) % Pow2(width)
         ELSE (Lo(w) \div Pow2(shift))
              + (Hi(w) % Pow2(shift + width - 16)) * Pow2(16 - shift)

\* w + n modulo 2^32, for a small n (0 <= n < 65536)
Add32(w, n) ==
    LET lo == Lo(w) + n
    IN  W((Hi(w) + (lo \div Half)) % Half, lo % Half)

\* a natural below 2^31 as a word, and back (only for values that fit)
ToWord(n) == W(n \div Half, n % Half)

\* bit i of a natural
BitOf(n, i) == (n \div Pow2(i)) % 2

\* n with bit i set / cleared (naturals)
SetBit(n, i) == IF BitOf(n, i) = 1 THEN n ELSE n + Pow2(i)

ClearBit(n, i) == IF BitOf(n, i) = 1 THEN n - Pow2(i) ELSE n

(***************************************************************************)
(* State::Psr and the shared CPU state (struct State : Genode::Vm_state)   *)
(***************************************************************************)
\* Psr::Mode values
PsrMode == [USR |-> 16, FIQ |-> 17, IRQ |-> 18, SVC |-> 19, ABORT |-> 23, UND |-> 27]

\* State::Mode_state::Mode, the index of a banked slot in mode[]; the order is
\* the one Vm::dump labels mode[0..4] with ("und", "svc", "abt", "irq", "fiq")
ModeStateIndex == [UND |-> 0, SVC |-> 1, ABORT |-> 2, IRQ |-> 3, FIQ |-> 4]

ModeStateMAX == 5

\* Psr::Mode::get(v): Bitfield<0,5>
PsrModeGet(cpsr) == Bits(cpsr, 0, 5)

\* the switch of Psr::mode_offset on the mode m: the banked slot, -1 for no
\* banking
mode_offset_of(m) ==
    CASE m = PsrMode.FIQ   -> ModeStateIndex.FIQ
      [] m = PsrMode.IRQ   -> ModeStateIndex.IRQ
      [] m = PsrMode.SVC   -> ModeStateIndex.SVC
      [] m = PsrMode.ABORT -> ModeStateIndex.ABORT
      [] m = PsrMode.UND   -> ModeStateIndex.UND
      [] OTHER             -> -1

\* Psr::mode_offset(cpsr)
mode_offset(cpsr) == mode_offset_of(PsrModeGet(cpsr))

\* State::r declares "unsigned mo = Psr::mode_offset(cpsr)" and then tests
\* "(mo < 0)": on an unsigned value the test never holds.
MoLessThanZero(mo) == FALSE

\* The words mode[0xFFFFFFFF].sp / .lr can alias.  With 32-bit address
\* arithmetic the index wraps to mode[-1], the three words that precede
\* mode[0] in the block: ip, cpsr and cpu_exception.  The access is out of
\* bounds, so which word is hit is left to the build.
OobWords == {"ip", "cpsr", "cpu_exception"}

\* State::r(i): the location a logical register resolves to.  A location is
\* <<"gp", i>> (Gp_register::r[i]: r0..r12, sp, lr, ip), <<"sp", m>> or
\* <<"lr", m>> (mode[m].sp / mode[m].lr), or <<"oob", word>>.
r_at(mo, i, oob) ==
    CASE i = 13 -> IF MoLessThanZero(mo) THEN <<"gp", 13>>
                   ELSE IF mo \in 0..(ModeStateMAX - 1) THEN <<"sp", mo>>
                   ELSE <<"oob", oob>>
      [] i = 14 -> IF MoLessThanZero(mo) THEN <<"gp", 14>>
                   ELSE IF mo \in 0..(ModeStateMAX - 1) THEN <<"lr", mo>>
                   ELSE <<"oob", oob>>
      [] OTHER  -> <<"gp", i>>

\* State::r(i) with mo = Psr::mode_offset(cpsr)
r(st, i, oob) == r_at(mode_offset(st.cpsr), i, oob)

\* *loc as an rvalue
Load(st, loc) ==
    CASE loc[1] = "gp"  -> st.r[loc[2]]
      [] loc[1] = "sp"  -> st.mode[loc[2]].sp
      [] loc[1] = "lr"  -> st.mode[loc[2]].lr
      [] loc[2] = "ip"  -> st.r[15]
      [] loc[2] = "cpsr" -> st.cpsr
      [] OTHER          -> st.cpu_exception

\* *loc = v
Store(st, loc, v) ==
    CASE loc[1] = "gp"  -> [st EXCEPT !.r[loc[2]] = v]
      [] loc[1] = "sp"  -> [st EXCEPT !.mode[loc[2]].sp = v]
      [] loc[1] = "lr"  -> [st EXCEPT !.mode[loc[2]].lr = v]
      [] loc[2] = "ip"  -> [st EXCEPT !.r[15] = v]
      [] loc[2] = "cpsr" -> [st EXCEPT !.cpsr = v]
      [] OTHER          -> [st EXCEPT !.cpu_exception = v]

\* state.ip
Ip(st) == st.r[15]

(***************************************************************************)
(* Vmm::Hsr and Vmm::Coprocessor (the CP15 register file)                  *)
(***************************************************************************)
\* Hsr::Ec: Bitfield<26, 6>
Ec == [WFI |-> 1, CP15 |-> 3, HVC |-> 18, DA |-> 36]

EcGet(hsr) == Bits(hsr, 26, 6)

\* Coprocessor::Iss bitfields
IssDirection(v) == Bits(v, 0, 1)

IssCrm(v) == Bits(v, 1, 4)

IssRegister(v) == Bits(v, 5, 4)

IssCrn(v) == Bits(v, 10, 4)

IssOpcode1(v) == Bits(v, 14, 3)

IssOpcode2(v) == Bits(v, 17, 3)

\* Iss::value(crn, op1, crm, op2): each field set at its bit position
IssValue(crn, op1, crm, op2) ==
    crm * Pow2(1) + crn * Pow2(10) + op1 * Pow2(14) + op2 * Pow2(17)

\* Iss::mask_encoding(v): the four masked fields or-ed together (they do not
\* overlap, so the or is a sum); the result is below 2^20
mask_encoding(v) ==
    IssCrm(v) * Pow2(1) + IssCrn(v) * Pow2(10)
    + IssOpcode1(v) * Pow2(14) + IssOpcode2(v) * Pow2(17)

\* Coprocessor::Register constructor
Register(crn, op1, crm, op2, name, writeable, field, init) ==
    [encoding |-> IssValue(crn, op1, crm, op2), name |-> name,
     writeable |-> writeable, field |-> field, init_value |-> init]

\* Cp15::_regs_0 .. _regs_26
Cp15Regs == <<
    Register( 0, 0, 0, 0, "MIDR",       FALSE, "midr",   W(\H412f, \Hc0f1)),
    Register( 0, 0, 0, 5, "MPIDR",      FALSE, "mpidr",  W(\H4000, \H0000)),
    Register( 0, 0, 0, 1, "CTR",        FALSE, "ctr",    W(\H8444, \Hc004)),
    Register( 0, 1, 0, 0, "CCSIDR",     FALSE, "ccsidr", W(\H701f, \He00a)),
    Register( 0, 1, 0, 1, "CLIDR",      FALSE, "clidr",  W(\H0a20, \H0023)),
    Register( 0, 0, 1, 0, "PFR0",       FALSE, "pfr0",   W(\H0000, \H1031)),
    Register( 0, 0, 1, 4, "MMFR0",      FALSE, "mmfr0",  W(\H1020, \H1105)),
    Register( 0, 0, 2, 0, "ISAR0",      FALSE, "isar0",  W(\H0210, \H1110)),
    Register( 0, 0, 2, 3, "ISAR3",      FALSE, "isar3",  W(\H1111, \H2131)),
    Register( 0, 0, 2, 4, "ISAR4",      FALSE, "isar4",  W(\H1001, \H1142)),
    Register( 0, 2, 0, 0, "CSSELR",     TRUE,  "csselr", W(\H0000, \H0000)),
    Register( 1, 0, 0, 0, "SCTRL",      TRUE,  "sctrl",  W(\H0000, \H0000)),
    Register( 1, 0, 0, 1, "ACTRL",      TRUE,  "actrl",  W(\H0000, \H0040)),
    Register( 1, 0, 0, 2, "CPACR",      TRUE,  "cpacr",  W(\H0000, \H0000)),
    Register( 2, 0, 0, 0, "TTBR0",      TRUE,  "ttbr0",  W(\H0000, \H0000)),
    Register( 2, 0, 0, 1, "TTBR1",      TRUE,  "ttbr1",  W(\H0000, \H0000)),
    Register( 2, 0, 0, 2, "TTBCR",      TRUE,  "ttbcr",  W(\H0000, \H0000)),
    Register( 3, 0, 0, 0, "DACR",       TRUE,  "dacr",   W(\H5555, \H5555)),
    Register( 5, 0, 0, 0, "DFSR",       TRUE,  "dfsr",   W(\H0000, \H0000)),
    Register( 5, 0, 0, 1, "IFSR",       TRUE,  "ifsr",   W(\H0000, \H0000)),
    Register( 5, 0, 1, 0, "ADFSR",      TRUE,  "adfsr",  W(\H0000, \H0000)),
    Register( 5, 0, 1, 1, "AIFSR",      TRUE,  "aifsr",  W(\H0000, \H0000)),
    Register( 6, 0, 0, 0, "DFAR",       TRUE,  "dfar",   W(\H0000, \H0000)),
    Register( 6, 0, 0, 2, "IFAR",       TRUE,  "ifar",   W(\H0000, \H0000)),
    Register(10, 0, 2, 0, "PRRR",       TRUE,  "prrr",   W(\H0009, \H8aa4)),
    Register(10, 0, 2, 1, "NMRR",       TRUE,  "nmrr",   W(\H44e0, \H48e0)),
    Register(13, 0, 0, 1, "CONTEXTIDR", TRUE,  "cidr",   W(\H0000, \H0000)) >>

NumCp15Regs == Len(Cp15Regs)

\* Register::higher(r): r goes to the right of this node
RegisterHigher(this, other) == Cp15Regs[other].encoding > Cp15Regs[this].encoding

\* Avl_tree<Register>::insert, as an unbalanced search-tree insertion steered
\* by higher(): rebalancing keeps the search order, so a lookup finds the same
\* node.  A tree is [root, left, right], children indexed by node, 0 for none.
RECURSIVE RegTreeInsertAt(_, _, _)
RegTreeInsertAt(t, at, n) ==
    IF RegisterHigher(at, n)
    THEN IF t.right[at] = 0 THEN [t EXCEPT !.right[at] = n]
         ELSE RegTreeInsertAt(t, t.right[at], n)
    ELSE IF t.left[at] = 0 THEN [t EXCEPT !.left[at] = n]
         ELSE RegTreeInsertAt(t, t.left[at], n)

RegTreeInsert(t, n) ==
    IF t.root = 0 THEN [t EXCEPT !.root = n] ELSE RegTreeInsertAt(t, t.root, n)

RECURSIVE RegTreeBuild(_)
RegTreeBuild(n) ==
    IF n = 0
    THEN [root |-> 0, left |-> [i \in 1..NumCp15Regs |-> 0],
          right |-> [i \in 1..NumCp15Regs |-> 0]]
    ELSE RegTreeInsert(RegTreeBuild(n - 1), n)

\* Coprocessor::_reg_tree after Cp15's constructor
reg_tree == RegTreeBuild(NumCp15Regs)

\* Avl_node::child(higher) of node n, 0 for nullptr
RegTreeChild(n, higher) == IF higher THEN reg_tree.right[n] ELSE reg_tree.left[n]

\* Register::find_by_encoding(e), started at node n; 0 for nullptr
RECURSIVE find_by_encoding(_, _)
\* "r ? r->find_by_encoding(e) : nullptr", c the child r
find_from(c, e) == IF c = 0 THEN 0 ELSE find_by_encoding(c, e)

find_by_encoding(n, e) ==
    IF e = Cp15Regs[n].encoding THEN n
    ELSE find_from(RegTreeChild(n, e > Cp15Regs[n].encoding), e)

\* Register::write / Register::read
RegWrite(st, n, v) == [st EXCEPT ![Cp15Regs[n].field] = v]

RegRead(st, n) == st[Cp15Regs[n].field]

\* "state.ip += sizeof(Genode::addr_t); return true": [st, ok, err]
Handled(st) == [st |-> [st EXCEPT !.r[15] = Add32(@, 4)], ok |-> TRUE, err |-> "none"]

\* "return false" after Genode::error
Refused(st, err) == [st |-> st, ok |-> FALSE, err |-> err]

\* the read branch: "state.r(Iss::Register::get(v)) = reg->read(state)"
trap_read(st, reg, loc) == Handled(Store(st, loc, RegRead(st, reg)))

\* the write branch: "reg->write(state, state.r(Iss::Register::get(v)))"
trap_write(st, reg, loc) == Handled(RegWrite(st, reg, Load(st, loc)))

\* a trap handler that does not ask whether the register is writeable
trap_on_unprotected(st, reg, oob) ==
    IF reg = 0 THEN Refused(st, "UnknownCP15")
    ELSE IF IssDirection(st.hsr) = 1
    THEN trap_read(st, reg, r(st, IssRegister(st.hsr), oob))
    ELSE trap_write(st, reg, r(st, IssRegister(st.hsr), oob))

\* Coprocessor::handle_trap from the lookup on: reg is what it found
trap_on(st, reg, oob) ==
    IF reg = 0 THEN Refused(st, "UnknownCP15")
    ELSE IF IssDirection(st.hsr) = 1
    THEN trap_read(st, reg, r(st, IssRegister(st.hsr), oob))
    ELSE IF ~Cp15Regs[reg].writeable THEN Refused(st, "CP15WriteProtected")
    ELSE trap_write(st, reg, r(st, IssRegister(st.hsr), oob))

\* Coprocessor::handle_trap(state): [st, ok, err]
handle_trap(st, oob) ==
    trap_on(st, find_from(reg_tree.root, mask_encoding(st.hsr)), oob)

\* Cp15::_init_reg for every register, in declaration order (the tree
\* insertion is reg_tree)
RECURSIVE Cp15Init(_, _)
Cp15Init(st, n) ==
    IF n = 0 THEN st ELSE RegWrite(Cp15Init(st, n - 1), n, Cp15Regs[n].init_value)


(***************************************************************************)
(* The machine: everything a handler can change.  A handler is a function  *)
(* from machine to machine; a thrown Vm::Exception is recorded in err and  *)
(* thrown, and the steps that follow a throw are skipped.                  *)
(***************************************************************************)
Throw(mc, tag) == [mc EXCEPT !.err = tag, !.thrown = TRUE]

\* Genode::error(...) without an exception
LogError(mc, tag) == [mc EXCEPT !.err = tag]

\* an access to the shared state block; race records one made while the
\* VCPU runs
Touch(mc) == [mc EXCEPT !.race = @ \/ mc.running]

(***************************************************************************)
(* Vmm::Gic                                                                *)
(***************************************************************************)
\* Arm_v7::VT_TIMER_IRQ, Arm_v7::VT_MAINTAINANCE_IRQ, Board::PL011_0_IRQ,
\* State::NR_IRQ (the number of list registers)
VT_TIMER_IRQ == 27

VT_MAINTAINANCE_IRQ == 25

PL011_0_IRQ == 37

NR_IRQ == 4

\* Gic::Irqs
SGI_MAX == 15

TIMER == VT_TIMER_IRQ

MAX_IRQ == 256

\* distributor register offsets
GICD == [CTLR |-> 0, TYPER |-> 4,
         ISENABLER0 |-> 256, ISENABLERL |-> 380,
         ICENABLER0 |-> 384, ICENABLERL |-> 508,
         IPRIORITYR0 |-> 1024, IPRIORITYRL |-> 2040,
         ITARGETSR0 |-> 2048, ITARGETSRL |-> 3064,
         ICFGR2 |-> 3080, ICFGRL |-> 3324]

\* Gic::Irq default member initialisers
IrqDefault ==
    [cpu_state |-> "INACTIVE", distr_state |-> "DISABLED", device |-> "none", eoi |-> FALSE]

\* Gic::register_irq
register_irq(irqs, irq, d, eoi) ==
    [irqs EXCEPT ![irq].device = d, ![irq].eoi = eoi]

\* Gic::Gic: every entry default, the SGIs owned by the GIC itself
GicCtorIrqs ==
    [i \in 0..MAX_IRQ |->
        IF i <= SGI_MAX THEN [IrqDefault EXCEPT !.device = "Gic"] ELSE IrqDefault]

\* Gich_lr bitfields on a list-register value
LrVirtId(v) == v % Pow2(10)

LrPhysId(v) == (v \div Pow2(10)) % Pow2(10)

LrPrio(v) == (v \div Pow2(23)) % Pow2(5)

LrState(v) == (v \div Pow2(28)) % Pow2(2)

\* the value _inject_irq builds
LrValue(irq, eoi) ==
    (irq % Pow2(10)) + (IF eoi THEN Pow2(9) ELSE 0) * Pow2(10) + 0 * Pow2(23) + 1 * Pow2(28)

LrRange == 0..(NR_IRQ - 1)

\* an end of interrupt that leaves the IRQ PENDING
EoiOf_stays_pending(mc, i, irq) ==
    [mc EXCEPT !.st.gic_lr[i] = 0,
               !.st.gic_elrsr0 = SetBit(@, i),
               !.st.timer_irq = IF irq = TIMER /\ mc.irqs[irq].distr_state = "ENABLED"
                                THEN TRUE ELSE @]

\* the end of interrupt irq reported for list register i
EoiOf(mc, i, irq) ==
    IF irq > MAX_IRQ THEN Throw(mc, "IRQOutOfBounds")
    ELSE [mc EXCEPT !.st.gic_lr[i] = 0,
                    !.st.gic_elrsr0 = SetBit(@, i),
                    !.st.timer_irq = IF irq = TIMER /\ mc.irqs[irq].distr_state = "ENABLED"
                                     THEN TRUE ELSE @,
                    !.irqs[irq].cpu_state = "INACTIVE"]

\* one iteration of the loop of Gic::_handle_eoi
EoiBody(mc, i) ==
    IF BitOf(mc.st.gic_eisr, i) = 0 THEN mc
    ELSE EoiOf(mc, i, LrVirtId(mc.st.gic_lr[i]))

RECURSIVE EoiLoop(_, _)
EoiLoop(mc, i) ==
    IF i = NR_IRQ \/ mc.thrown THEN mc ELSE EoiLoop(EoiBody(mc, i), i + 1)

\* "_vm.state().gic_misr = 0" once the loop is through
EoiDone(mc) == IF mc.thrown THEN mc ELSE [mc EXCEPT !.st.gic_misr = 0]

\* Gic::_handle_eoi
handle_eoi(mc) ==
    IF BitOf(mc.st.gic_misr, 0) = 0 THEN mc ELSE EoiDone(EoiLoop(mc, 0))

\* the list registers in flight (elrsr0 bit clear) that hold virtual id irq
InFlightWith(st, irq) ==
    {i \in LrRange : BitOf(st.gic_elrsr0, i) = 0 /\ LrVirtId(st.gic_lr[i]) = irq}

\* the free list registers (elrsr0 bit set)
FreeLrs(st) == {i \in LrRange : BitOf(st.gic_elrsr0, i) = 1}

Min(S) == CHOOSE x \in S : \A y \in S : x <= y

\* a fill that leaves the list register marked free
FillLr_still_free(mc, i, irq, eoi) ==
    [mc EXCEPT !.st.gic_lr[i] = LrValue(irq, eoi)]

\* the second loop of Gic::_inject_irq taking the free list register i
FillLr(mc, i, irq, eoi) ==
    [mc EXCEPT !.st.gic_elrsr0 = ClearBit(@, i), !.st.gic_lr[i] = LrValue(irq, eoi)]

\* a first loop that takes a free list register with the id for a duplicate
FindLr_any_holder(mc, irq, eoi) ==
    IF \E i \in LrRange : LrVirtId(mc.st.gic_lr[i]) = irq THEN mc
    ELSE IF FreeLrs(mc.st) = {} THEN Throw(mc, "ListRegistersFull")
    ELSE FillLr(mc, Min(FreeLrs(mc.st)), irq, eoi)

\* the two loops of Gic::_inject_irq
FindLr(mc, irq, eoi) ==
    IF InFlightWith(mc.st, irq) # {} THEN mc
    ELSE IF FreeLrs(mc.st) = {} THEN Throw(mc, "ListRegistersFull")
    ELSE FillLr(mc, Min(FreeLrs(mc.st)), irq, eoi)

\* Gic::_inject_irq(irq, eoi)
inject_irq_lr(mc, irq, eoi) ==
    FindLr([Touch(mc) EXCEPT !.st.timer_irq = IF irq = TIMER THEN FALSE ELSE @],
           irq, eoi)

\* Vm::interrupt / Vm::wait_for_interrupt
interrupt(mc) == [mc EXCEPT !.active = TRUE]

wait_for_interrupt(mc) == [mc EXCEPT !.active = FALSE]

\* a wake-up of the VCPU that does not wait for _inject_irq to succeed
Interrupted_anyway(mc) == interrupt(mc)

\* "_vm.interrupt()" unless _inject_irq threw
Interrupted(mc) == IF mc.thrown THEN mc ELSE interrupt(mc)

\* an injection that wakes the VCPU for a DISABLED IRQ
InjectEnabled_waking(mc, irq) ==
    IF mc.irqs[irq].distr_state = "DISABLED" THEN interrupt([mc EXCEPT !.warned = TRUE])
    ELSE Interrupted(inject_irq_lr(mc, irq, mc.irqs[irq].eoi))

\* Gic::inject_irq from the distr_state test on
InjectEnabled(mc, irq) ==
    IF mc.irqs[irq].distr_state = "DISABLED" THEN [mc EXCEPT !.warned = TRUE]
    ELSE Interrupted(inject_irq_lr(mc, irq, mc.irqs[irq].eoi))

\* an injection that marks the IRQ PENDING before it looks at the owner
inject_irq_marking_first(mc, irq) ==
    IF mc.irqs[irq].device = "none"
    THEN Throw([mc EXCEPT !.irqs[irq].cpu_state = "PENDING"], "UnknownInjection")
    ELSE IF mc.irqs[irq].cpu_state = "PENDING" THEN Throw(mc, "DoubleInject")
    ELSE InjectEnabled([mc EXCEPT !.irqs[irq].cpu_state =
                                      IF mc.irqs[irq].eoi THEN "PENDING" ELSE @],
                       irq)

\* Gic::inject_irq(irq)
inject_irq(mc, irq) ==
    IF mc.irqs[irq].device = "none" THEN Throw(mc, "UnknownInjection")
    ELSE IF mc.irqs[irq].cpu_state = "PENDING" THEN Throw(mc, "DoubleInject")
    ELSE InjectEnabled([mc EXCEPT !.irqs[irq].cpu_state =
                                      IF mc.irqs[irq].eoi THEN "PENDING" ELSE @],
                       irq)

\* "_irqs[irq].device->irq_enabled(irq)" / "->irq_disabled(irq)": the calls
\* made to the owners are kept in told, and so are the calls of the read and
\* write hooks of the devices, with the offset as argument
Tell(mc, what, irq) == [mc EXCEPT !.told = Append(@, <<what, irq>>)]

\* an enable that tells the owner of an IRQ that is ENABLED already
enable_irq_telling_again(mc, irq) ==
    IF irq > MAX_IRQ \/ mc.irqs[irq].device = "none" THEN Throw(mc, "GicUnknownIrq")
    ELSE Tell([mc EXCEPT !.irqs[irq].distr_state = "ENABLED",
                         !.st.timer_irq = IF irq = TIMER THEN TRUE ELSE @],
              "irq_enabled", irq)

\* Gic::_enable_irq(irq)
enable_irq(mc, irq) ==
    IF irq > MAX_IRQ \/ mc.irqs[irq].device = "none" THEN Throw(mc, "GicUnknownIrq")
    ELSE IF mc.irqs[irq].distr_state = "ENABLED" THEN mc
    ELSE Tell([mc EXCEPT !.irqs[irq].distr_state = "ENABLED",
                         !.st.timer_irq = IF irq = TIMER THEN TRUE ELSE @],
              "irq_enabled", irq)

\* a disable that leaves the timer's interrupt line as it is
disable_irq_keeps_line(mc, irq) ==
    IF irq > MAX_IRQ THEN Throw(mc, "IRQOutOfBounds")
    ELSE IF mc.irqs[irq].distr_state = "DISABLED" THEN mc
    ELSE [mc EXCEPT !.irqs[irq].distr_state = "DISABLED"]

\* Gic::_disable_irq(irq)
disable_irq(mc, irq) ==
    IF irq > MAX_IRQ THEN Throw(mc, "IRQOutOfBounds")
    ELSE IF mc.irqs[irq].distr_state = "DISABLED" THEN mc
    ELSE Tell([mc EXCEPT !.irqs[irq].distr_state = "DISABLED",
                         !.st.timer_irq = IF irq = TIMER THEN FALSE ELSE @],
              "irq_disabled", irq)

\* the loops of Gic::write over the 32 bits of *reg
RECURSIVE EnableLoop(_, _, _, _)
EnableLoop(mc, v, idx, i) ==
    IF i = 32 \/ mc.thrown THEN mc
    ELSE EnableLoop(IF Bits(v, i, 1) = 1 THEN enable_irq(mc, idx + i) ELSE mc,
                    v, idx, i + 1)

RECURSIVE DisableLoop(_, _, _, _)
DisableLoop(mc, v, idx, i) ==
    IF i = 32 \/ mc.thrown THEN mc
    ELSE DisableLoop(IF Bits(v, i, 1) = 1 THEN disable_irq(mc, idx + i) ELSE mc,
                     v, idx, i + 1)

InRange(off, lo, hi) == off >= lo /\ off <= hi

\* Gic::write(uint32_t *reg, off), v = *reg
GicWrite(mc, v, off) ==
    IF InRange(off, GICD.ITARGETSR0, GICD.ITARGETSRL) /\ v = W(\H0101, \H0101) THEN mc
    ELSE IF InRange(off, GICD.ICFGR2, GICD.ICFGRL) /\ v = Zero32 THEN mc
    ELSE IF InRange(off, GICD.IPRIORITYR0, GICD.IPRIORITYRL) THEN mc
    ELSE IF InRange(off, GICD.ISENABLER0, GICD.ISENABLERL)
         THEN EnableLoop(mc, v, (off - GICD.ISENABLER0) * 8, 0)
    ELSE IF InRange(off, GICD.ICENABLER0, GICD.ICENABLERL)
         THEN DisableLoop(mc, v, (off - GICD.ICENABLER0) * 8, 0)
    ELSE IF off = GICD.CTLR THEN [mc EXCEPT !.distr_enabled = (Bits(v, 0, 1) = 1)]
    ELSE Throw(mc, "UnsupportedGicOffset")

\* bit i of the word Gic::read builds for an ISENABLER register; _irqs has
\* MAX_IRQ+1 entries and the loop reads _irqs[idx + i] unchecked, so an entry
\* past the end reads whatever follows the table (junk: 0 or 1)
EnabledBit(mc, k, junk) ==
    IF k > MAX_IRQ THEN junk
    ELSE IF mc.irqs[k].distr_state = "ENABLED" THEN 1 ELSE 0

RECURSIVE EnabledBits(_, _, _, _, _)
EnabledBits(mc, idx, from, to, junk) ==
    IF from > to THEN 0
    ELSE EnabledBit(mc, idx + from, junk) * Pow2(from - (to - 15))
         + EnabledBits(mc, idx, from + 1, to, junk)

\* Gic::read(uint32_t *reg, off): [mc, val]
GicRead(mc, off, junk) ==
    IF InRange(off, GICD.ICFGR2, GICD.ICFGRL) THEN [mc |-> mc, val |-> Zero32]
    ELSE IF InRange(off, GICD.ISENABLER0, GICD.ISENABLERL)
         THEN [mc |-> mc,
               val |-> W(EnabledBits(mc, (off - GICD.ISENABLER0) * 8, 16, 31, junk),
                         EnabledBits(mc, (off - GICD.ISENABLER0) * 8, 0, 15, junk))]
    ELSE IF InRange(off, GICD.ITARGETSR0, GICD.ITARGETSRL)
         THEN [mc |-> mc, val |-> W(\H0101, \H0101)]
    ELSE IF off = GICD.CTLR
         THEN [mc |-> mc, val |-> IF mc.distr_enabled THEN W(0, 1) ELSE Zero32]
    ELSE IF off = GICD.TYPER THEN [mc |-> mc, val |-> W(0, 5)]
    ELSE [mc |-> Throw(mc, "UnsupportedGicOffset"), val |-> Zero32]

\* Gic::irq_occured
irq_occured(mc) ==
    IF mc.st.gic_irq = VT_MAINTAINANCE_IRQ THEN handle_eoi(mc)
    ELSE IF mc.st.gic_irq = TIMER THEN inject_irq(mc, TIMER)
    ELSE Throw(mc, "UnknownIrq")


(***************************************************************************)
(* Vmm::Generic_timer                                                      *)
(***************************************************************************)
\* a word divided by 24, as a natural (the result is below 2^28)
Div24(w) == (Hi(w) \div 24) * Half + ((Hi(w) % 24) * Half + Lo(w)) \div 24

\* a handler that reloads the control register only
timeout_keeping_val(mc) ==
    inject_irq([mc EXCEPT !.st.timer_ctrl = 5], VT_TIMER_IRQ)

\* Generic_timer::_timeout
timeout(mc) ==
    inject_irq([mc EXCEPT !.st.timer_ctrl = 5, !.st.timer_val = W(\Hffff, \Hffff)],
               VT_TIMER_IRQ)

\* timer_ctrl & 0b101
CtrlMask(ctrl) == BitOf(ctrl, 0) + 4 * BitOf(ctrl, 2)

\* Generic_timer::schedule_timeout: Timer::Connection::trigger_once replaces
\* the pending one-shot (the call is kept in told)
schedule_timeout(mc) ==
    IF CtrlMask(mc.st.timer_ctrl) # 5
    THEN Tell([mc EXCEPT !.timer = [armed |-> TRUE, us |-> Div24(mc.st.timer_val)]],
              "trigger_once", Div24(mc.st.timer_val))
    ELSE mc

(***************************************************************************)
(* Vmm::System_register                                                    *)
(***************************************************************************)
SYS == [LED |-> 8, FLASH |-> 76, MHZ24 |-> 92, MCI |-> 72, MISC |-> 96,
        PROCID0 |-> 132, CFGDATA |-> 160, CFGCTRL |-> 164, CFGSTAT |-> 168]

\* System_register::_mcc_control(device, func, write)
mcc_control(mc, device, func, write) ==
    IF func = 1 /\ ~write
    THEN CASE device = 0 -> [mc EXCEPT !.spi_data = ToWord(60000000)]
           [] device = 2 -> [mc EXCEPT !.spi_data = ToWord(24000000)]
           [] device = 4 -> [mc EXCEPT !.spi_data = ToWord(40000000)]
           [] device = 5 -> [mc EXCEPT !.spi_data = ToWord(23750000)]
           [] device = 6 -> [mc EXCEPT !.spi_data = ToWord(50000000)]
           [] device = 7 -> [mc EXCEPT !.spi_data = ToWord(60000000)]
           [] device = 8 -> [mc EXCEPT !.spi_data = ToWord(40000000)]
           [] OTHER      -> Throw(mc, "UnsupportedMCC")
    ELSE IF func = 2 /\ ~write /\ device = 0
         THEN [mc EXCEPT !.spi_data = ToWord(900000)]
         ELSE Throw(mc, "UnsupportedMCC")

\* System_register::read(uint32_t *reg, off); ms is Timer::elapsed_ms(),
\* small enough for ms * 24000 to stay below 2^31
SysRead(mc, off, ms) ==
    CASE off = SYS.LED     -> [mc |-> mc, val |-> W(0, 255)]
      [] off = SYS.FLASH   -> [mc |-> mc, val |-> Zero32]
      [] off = SYS.MHZ24   -> [mc |-> mc, val |-> ToWord(ms * 24000)]
      [] off = SYS.MISC    -> [mc |-> mc, val |-> W(0, Pow2(12))]
      [] off = SYS.PROCID0 -> [mc |-> mc, val |-> W(\H1400, \H0237)]
      [] off = SYS.MCI     -> [mc |-> mc, val |-> Zero32]
      [] off = SYS.CFGSTAT -> [mc |-> mc, val |-> mc.spi_stat]
      [] off = SYS.CFGCTRL -> [mc |-> mc, val |-> Zero32]
      [] off = SYS.CFGDATA -> [mc |-> mc, val |-> mc.spi_data]
      [] OTHER             -> [mc |-> Throw(mc, "SysRegsReadForbidden"), val |-> Zero32]

\* System_register::write(uint32_t *reg, off), v = *reg
SysWrite(mc, v, off) ==
    CASE off = SYS.CFGDATA -> [mc EXCEPT !.spi_data = v]
      [] off = SYS.CFGSTAT -> [mc EXCEPT !.spi_stat = v]
      [] off = SYS.CFGCTRL /\ Bits(v, 31, 1) = 1 ->
             mcc_control([mc EXCEPT !.spi_stat = W(0, 1)],
                         Bits(v, 0, 12), Bits(v, 20, 6), Bits(v, 30, 1) = 1)
      [] OTHER             -> Throw(mc, "SysRegsWriteForbidden")

(***************************************************************************)
(* Vmm::Pl011                                                              *)
(***************************************************************************)
UART == [DR |-> 0, FR |-> 24, IBRD |-> 36, FBRD |-> 40, LCR_H |-> 44, CR |-> 48,
         IFLS |-> 52, IMSC |-> 56, MIS |-> 64, ICR |-> 68,
         PERIPHID0 |-> 4064, PERIPHID1 |-> 4068, PERIPHID2 |-> 4072, PERIPHID3 |-> 4076,
         PCELLID0 |-> 4080, PCELLID1 |-> 4084, PCELLID2 |-> 4088, PCELLID3 |-> 4092]

\* bitwise operations on naturals of n bits
RECURSIVE BitAnd(_, _, _)
BitAnd(a, b, n) ==
    IF n = 0 THEN 0
    ELSE (a % 2) * (b % 2) + 2 * BitAnd(a \div 2, b \div 2, n - 1)

RECURSIVE BitAndNot(_, _, _)
BitAndNot(a, b, n) ==
    IF n = 0 THEN 0
    ELSE (a % 2) * (1 - (b % 2)) + 2 * BitAndNot(a \div 2, b \div 2, n - 1)

\* the Pl011 members after construction
UartInit ==
    [rx_buf |-> <<>>, ibrd |-> 0, fbrd |-> 0, lcr_h |-> 0, imsc |-> 15, ris |-> 0,
     cr |-> 768]

\* Pl011::_get(off): [mc, val, ok]; val is a uint16_t
UartGet(mc, off) ==
    LET same(v) == [mc |-> mc, val |-> v, ok |-> TRUE]
    IN  CASE off = UART.DR ->
                 IF mc.uart.rx_buf = <<>> THEN same(0)
                 ELSE [mc |-> [mc EXCEPT !.uart.rx_buf = Tail(@)],
                       val |-> Head(mc.uart.rx_buf), ok |-> TRUE]
          [] off = UART.PERIPHID0 -> same(17)
          [] off = UART.PERIPHID1 -> same(16)
          [] off = UART.PERIPHID2 -> same(20)
          [] off = UART.PERIPHID3 -> same(0)
          [] off = UART.PCELLID0  -> same(13)
          [] off = UART.PCELLID1  -> same(240)
          [] off = UART.PCELLID2  -> same(5)
          [] off = UART.PCELLID3  -> same(177)
          [] off = UART.FR        -> same(IF mc.uart.rx_buf = <<>> THEN 16 ELSE 64)
          [] off = UART.CR        -> same(mc.uart.cr)
          [] off = UART.IMSC      -> same(mc.uart.imsc)
          [] off = UART.MIS       -> same(BitAnd(mc.uart.ris, mc.uart.imsc, 16))
          [] off = UART.FBRD      -> same(mc.uart.fbrd)
          [] off = UART.IBRD      -> same(mc.uart.ibrd)
          [] off = UART.LCR_H     -> same(mc.uart.lcr_h)
          [] OTHER                -> [mc |-> mc, val |-> 0, ok |-> FALSE]

\* Pl011::read(uint16_t *reg, off): [mc, val]
UartGot(mc, g) ==
    IF g.ok THEN [mc |-> g.mc, val |-> g.val]
    ELSE [mc |-> Throw(mc, "UartReadOffset"), val |-> 0]

UartRead16(mc, off) == UartGot(mc, UartGet(mc, off))

\* Terminal::Connection::write of one byte
TerminalWrite(mc, byte) == [mc EXCEPT !.term_out = Append(@, byte)]

\* Pl011::_mask_irqs(mask), mask = the halfword written
\* "_ris |= bit" after an injection that did not throw
RaisedRis(mc, bit) == IF mc.thrown THEN mc ELSE [mc EXCEPT !.uart.ris = SetBit(@, bit)]

\* the transmit-interrupt test of Pl011::_mask_irqs
MaskTx(mc, mask) ==
    IF BitOf(mask, 5) = 1 /\ BitOf(mc.uart.imsc, 5) = 0
    THEN RaisedRis(inject_irq(mc, PL011_0_IRQ), 5)
    ELSE mc

\* the receive-interrupt test of Pl011::_mask_irqs
MaskRx(mc, mask) ==
    IF mc.thrown THEN mc
    ELSE IF BitOf(mask, 4) = 1 /\ BitOf(mc.uart.imsc, 4) = 0 /\ mc.uart.rx_buf # <<>>
    THEN RaisedRis(inject_irq(mc, PL011_0_IRQ), 4)
    ELSE mc

\* "_imsc = mask"
MaskSet(mc, mask) == IF mc.thrown THEN mc ELSE [mc EXCEPT !.uart.imsc = mask]

mask_irqs(mc, mask) == MaskSet(MaskRx(MaskTx(mc, mask), mask), mask)

\* Pl011::write(uint8_t *reg, off), v = *reg
UartWrite8(mc, v, off) ==
    IF off # UART.DR THEN Throw(mc, "UartByteWriteOffset") ELSE TerminalWrite(mc, v)

\* Pl011::write(uint16_t *reg, off), v = *reg; _terminal.write(reg, 1) sends
\* the first byte at reg, the low byte of the halfword
UartWrite16(mc, v, off) ==
    CASE off = UART.DR    -> TerminalWrite(mc, v % 256)
      [] off = UART.FBRD  -> [mc EXCEPT !.uart.fbrd = v]
      [] off = UART.IMSC  -> mask_irqs(mc, v)
      [] off = UART.IBRD  -> [mc EXCEPT !.uart.ibrd = v]
      [] off = UART.LCR_H -> [mc EXCEPT !.uart.lcr_h = v]
      [] off = UART.ICR   -> [mc EXCEPT !.uart.ris = BitAndNot(@, v, 16)]
      [] off = UART.CR    -> [mc EXCEPT !.uart.cr = v]
      [] off = UART.IFLS  -> mc
      [] OTHER            -> Throw(mc, "UartHalfwordWriteOffset")

\* Ring_buffer<char, 1024, Ring_buffer_unsynchronized>
RX_BUF_SIZE == 1024

\* "_rx_buf.add(c)" for each of the bytes read from the terminal: a full ring
\* buffer takes no further byte
RingAdd(buf, bytes) ==
    IF Len(buf) + Len(bytes) <= RX_BUF_SIZE THEN buf \o bytes
    ELSE buf \o SubSeq(bytes, 1, RX_BUF_SIZE - Len(buf))

\* Pl011::_read: the terminal's available bytes go to the ring buffer
uart_read(mc) ==
    IF mc.term_in = <<>> THEN mc
    ELSE RaisedRis(inject_irq([mc EXCEPT !.uart.rx_buf = RingAdd(@, mc.term_in),
                                         !.term_in = <<>>],
                              PL011_0_IRQ), 4)


(***************************************************************************)
(* Vmm::Device: the MMIO access decoder and the device tree                *)
(***************************************************************************)
\* the devices Vmm constructs: name, base IPA, size
Devices ==
    [Gic   |-> [addr |-> 738201600, size |-> 8192],    \* 0x2c001000, 0x2000
     Timer |-> [addr |-> 708182016, size |-> 4096],    \* 0x2a430000, 0x1000
     Sys   |-> [addr |-> 469827584, size |-> 4096],    \* 0x1c010000, 0x1000
     Pl011 |-> [addr |-> 470351872, size |-> 4096]]    \* 0x1c090000, 0x1000

\* the order of the _device_tree.insert calls in Vmm::Vmm
InsertedDevices == <<"Gic", "Sys", "Pl011">>

\* Device::higher(d), D the devices by name
DeviceHigher(D, this, d) == D[d].addr > D[this].addr

\* Avl_tree<Device>::insert as a search-tree insertion steered by higher();
\* a tree is [root, left, right] over device names, "" for none
RECURSIVE DevTreeInsertAt(_, _, _, _)
DevTreeInsertAt(D, t, at, d) ==
    IF DeviceHigher(D, at, d)
    THEN IF t.right[at] = "" THEN [t EXCEPT !.right[at] = d]
         ELSE DevTreeInsertAt(D, t, t.right[at], d)
    ELSE IF t.left[at] = "" THEN [t EXCEPT !.left[at] = d]
         ELSE DevTreeInsertAt(D, t, t.left[at], d)

DevTreeInsert(D, t, d) ==
    IF t.root = "" THEN [t EXCEPT !.root = d] ELSE DevTreeInsertAt(D, t, t.root, d)

\* the tree after the first n inserts of the sequence order
RECURSIVE DevTreeBuild(_, _, _)
DevTreeBuild(D, order, n) ==
    IF n = 0
    THEN [root |-> "", left |-> [d \in DOMAIN D |-> ""],
          right |-> [d \in DOMAIN D |-> ""]]
    ELSE DevTreeInsert(D, DevTreeBuild(D, order, n - 1), order[n])

\* Vmm::_device_tree after Vmm's constructor
device_tree == DevTreeBuild(Devices, InsertedDevices, Len(InsertedDevices))

\* a child accessor that hands out the other subtree
DevTreeChild_swapped(t, d, higher) == IF higher THEN t.left[d] ELSE t.right[d]

\* Avl_node::child(higher) of node d of the tree t, "" for nullptr
DevTreeChild(t, d, higher) == IF higher THEN t.right[d] ELSE t.left[d]

\* Device::find_by_addr(a) started at node d of the tree t; "" for nullptr
RECURSIVE find_by_addr(_, _, _, _)
\* "d ? d->find_by_addr(a) : nullptr"
find_dev_from(D, t, d, a) == IF d = "" THEN "" ELSE find_by_addr(D, t, d, a)

find_by_addr(D, t, d, a) ==
    IF a >= D[d].addr /\ a < D[d].addr + D[d].size THEN d
    ELSE find_dev_from(D, t, DevTreeChild(t, d, a > D[d].addr), a)

\* Device::Iss bitfields
DaWrite(v) == Bits(v, 6, 1)

DaRegister(v) == Bits(v, 16, 4)

DaSignExtend(v) == Bits(v, 21, 1)

DaAccessSize(v) == Bits(v, 22, 2)

DaValid(v) == Bits(v, 24, 1)

\* a validity test that accepts sign-extending loads
IssValid_any_sign(v) == DaValid(v) = 1

\* Iss::valid
IssValid(v) == DaValid(v) = 1 /\ DaSignExtend(v) = 0

AccessSize == [BYTE |-> 0, HALFWORD |-> 1, WORD |-> 2]

\* byte k (0..3) and halfword h (0..1) of a word, little endian
GetByte(w, k) ==
    CASE k = 0 -> Lo(w) % 256
      [] k = 1 -> Lo(w) \div 256
      [] k = 2 -> Hi(w) % 256
      [] OTHER -> Hi(w) \div 256

SetByte(w, k, b) ==
    CASE k = 0 -> W(Hi(w), (Lo(w) \div 256) * 256 + b)
      [] k = 1 -> W(Hi(w), b * 256 + (Lo(w) % 256))
      [] k = 2 -> W((Hi(w) \div 256) * 256 + b, Lo(w))
      [] OTHER -> W(b * 256 + (Hi(w) % 256), Lo(w))

GetHalf(w, h) == IF h = 0 THEN Lo(w) ELSE Hi(w)

SetHalf(w, h, v) == IF h = 0 THEN W(Hi(w), v) ELSE W(v, Lo(w))

\* the virtual write hooks: the device's override, or Device's default
DevWrite8(mc, dev, v, off) ==
    IF dev = "Pl011" THEN UartWrite8(mc, v, off)
    ELSE Throw(mc, "UnsupportedAccessWidth")

DevWrite16(mc, dev, v, off) ==
    IF dev = "Pl011" THEN UartWrite16(mc, v, off)
    ELSE Throw(mc, "UnsupportedAccessWidth")

DevWrite32(mc, dev, v, off) ==
    CASE dev = "Gic" -> GicWrite(mc, v, off)
      [] dev = "Sys" -> SysWrite(mc, v, off)
      [] OTHER       -> Throw(mc, "UnsupportedAccessWidth")

\* the virtual read hooks: [mc, val]
DevRead8(mc, dev, off) == [mc |-> Throw(mc, "UnsupportedAccessWidth"), val |-> 0]

DevRead16(mc, dev, off) ==
    IF dev = "Pl011" THEN UartRead16(mc, off)
    ELSE [mc |-> Throw(mc, "UnsupportedAccessWidth"), val |-> 0]

\* a word read; Pl011::read(uint32_t*) forwards to the halfword read on the
\* same pointer, which stores the low halfword of *reg only (old is *reg)
HalfOfWord(h, old) == [mc |-> h.mc, val |-> SetHalf(old, 0, h.val)]

DevRead32(mc, dev, off, old, ins) ==
    CASE dev = "Gic"   -> GicRead(mc, off, ins.junk)
      [] dev = "Sys"   -> SysRead(mc, off, ins.ms)
      [] dev = "Pl011" -> HalfOfWord(UartRead16(mc, off), old)
      [] OTHER         -> [mc |-> Throw(mc, "UnsupportedAccessWidth"), val |-> old]

\* the result of a read stored through the register pointer
StoreRead(rd, loc, v) ==
    IF rd.mc.thrown THEN rd.mc ELSE [rd.mc EXCEPT !.st = Store(rd.mc.st, loc, v)]

\* a byte, halfword or word read stored at its place in the register reg
StoreByte(rd, loc, reg, k) == StoreRead(rd, loc, SetByte(reg, k, rd.val))

StoreHalf(rd, loc, reg, h) == StoreRead(rd, loc, SetHalf(reg, h, rd.val))

StoreWord(rd, loc) == StoreRead(rd, loc, rd.val)

\* "ipa - addr() + (state.hdfar & ((1 << 13) - 1))"
DaOffset(st, dev) == st.hpfar * 256 - Devices[dev].addr + (Lo(st.hdfar) % Pow2(13))

\* the switch of Device::handle_memory_access: "wr ? write(p, off) :
\* read(p, off)" with p into the register at loc, which holds reg
access_sized(mc, dev, ins, wr, sz, off, loc, reg) ==
    CASE sz = AccessSize.BYTE ->
             IF wr THEN DevWrite8(Tell(mc, "write8", off), dev, GetByte(reg, off % 4), off)
             ELSE StoreByte(DevRead8(Tell(mc, "read8", off), dev, off), loc, reg, off % 4)
      [] sz = AccessSize.HALFWORD ->
             IF wr THEN DevWrite16(Tell(mc, "write16", off), dev, GetHalf(reg, off % 2), off)
             ELSE StoreHalf(DevRead16(Tell(mc, "read16", off), dev, off), loc, reg, off % 2)
      [] sz = AccessSize.WORD ->
             IF wr THEN DevWrite32(Tell(mc, "write32", off), dev, reg, off)
             ELSE StoreWord(DevRead32(Tell(mc, "read32", off), dev, off, reg, ins), loc)
      [] OTHER -> Throw(mc, "UnalignedAccess")

\* the access through state.r(idx), the location loc
access_at(mc, dev, ins, loc) ==
    access_sized(mc, dev, ins, DaWrite(mc.st.hsr) = 1, DaAccessSize(mc.st.hsr),
                 DaOffset(mc.st, dev), loc, Load(mc.st, loc))

\* Device::handle_memory_access(state)
handle_memory_access(mc, dev, ins) ==
    IF ~IssValid(mc.st.hsr) THEN Throw(mc, "MalformedHSR")
    ELSE access_at(mc, dev, ins, r(mc.st, DaRegister(mc.st.hsr), ins.oob))

(***************************************************************************)
(* Vmm: the trap decoder and handle_vm                                     *)
(***************************************************************************)
\* state.ip += sizeof(addr_t)
AdvanceIp(mc) == [mc EXCEPT !.st.r[15] = Add32(@, 4)]

\* a hypervisor call that is skipped before the failure is reported
handle_hyper_call_skipping(mc) == Throw(AdvanceIp(mc), "UnknownHyperCall")

\* Vmm::_handle_hyper_call
handle_hyper_call(mc) == Throw(mc, "UnknownHyperCall")

\* "_device_tree.first() ? _device_tree.first()->find_by_addr(ipa) : nullptr"
\* "first ? first->find_by_addr(a) : nullptr" on the tree t
lookup(D, t, a) == find_dev_from(D, t, t.root, a)

device_at(ipa) == lookup(Devices, device_tree, ipa)

\* "if (!device) throw ...; device->handle_memory_access(_vm.state())"
access_device(mc, device, ins) ==
    IF device = "" THEN Throw(mc, "NoDeviceAtIPA")
    ELSE handle_memory_access(mc, device, ins)

\* "_vm.state().ip += sizeof(Genode::addr_t)", reached unless a callee threw
StepOver(mc) == IF mc.thrown THEN mc ELSE AdvanceIp(mc)

\* a data-abort handler that steps PC before the access is emulated
handle_data_abort_early(mc, ins) ==
    access_device(AdvanceIp(mc), device_at(mc.st.hpfar * 256), ins)

\* Vmm::_handle_data_abort
handle_data_abort(mc, ins) ==
    StepOver(access_device(mc, device_at(mc.st.hpfar * 256), ins))

\* a WFI handler that halts the VCPU for WFE as well
handle_wfi_wfe_too(mc) == AdvanceIp(schedule_timeout(wait_for_interrupt(mc)))

\* Vmm::_handle_wfi
handle_wfi(mc) ==
    IF Bits(mc.st.hsr, 0, 1) = 1 THEN Throw(mc, "WFE")
    ELSE AdvanceIp(schedule_timeout(wait_for_interrupt(mc)))

\* Coprocessor::handle_trap as called from _handle_trap: the bool it returns
\* is dropped, its error is only logged
Cp15Result(mc, h) == IF h.ok THEN [mc EXCEPT !.st = h.st] ELSE LogError(mc, h.err)

cp15_handle_trap(mc, ins) == Cp15Result(mc, handle_trap(mc.st, ins.oob))

\* Vmm::_handle_trap
trap_switch(mc, ins, ec) ==
    CASE ec = Ec.HVC  -> handle_hyper_call([mc EXCEPT !.disp = "HVC"])
      [] ec = Ec.CP15 -> cp15_handle_trap([mc EXCEPT !.disp = "CP15"], ins)
      [] ec = Ec.DA   -> handle_data_abort([mc EXCEPT !.disp = "DA"], ins)
      [] ec = Ec.WFI  -> handle_wfi([mc EXCEPT !.disp = "WFI"])
      [] OTHER        -> Throw([mc EXCEPT !.disp = "TRAP"], "UnknownTrap")

handle_trap_ec(mc, ins) == trap_switch(mc, ins, EcGet(mc.st.hsr))

\* cpu_exception values handle_vm knows
ExcIRQ == W(0, 6)

ExcTRAP == W(0, 8)

\* a handle_vm that does not stop the VCPU before it works on the block
pause_missing(mc) == [mc EXCEPT !.paused = TRUE]

\* Vm::pause / Vm::run
pause(mc) == [mc EXCEPT !.running = FALSE, !.paused = TRUE]

run(mc) == IF mc.active THEN [mc EXCEPT !.running = TRUE, !.ran = TRUE] ELSE mc

\* the exit dispatch of Vmm::handle_vm
dispatch_exception(mc, ins) ==
    CASE mc.st.cpu_exception = ExcIRQ  -> irq_occured([Touch(mc) EXCEPT !.disp = "IRQ"])
      [] mc.st.cpu_exception = ExcTRAP -> handle_trap_ec(Touch(mc), ins)
      [] OTHER -> Throw([Touch(mc) EXCEPT !.disp = "OTHER"], "UnexpectedException")

\* the side handler a Signal_handler passes to handle_vm: Vmm::_handle (dummy),
\* Generic_timer::_timeout or Pl011::_read
side_handler(mc, ev) ==
    CASE ev = "timeout"  -> timeout(Touch(mc))
      [] ev = "terminal" -> uart_read(mc)
      [] OTHER           -> mc

\* a dispatch that does not ask whether the VCPU is halted
exit_step_halted_too(mc, ins) == dispatch_exception(pause(mc), ins)

\* Vmm::handle_vm(handler)
\* "if (_vm.active()) { _vm.pause(); switch ... }"; dfail records a dispatch
\* that reported an error
exit_step(mc, ins) == IF mc.active THEN dispatch_exception(pause(mc), ins) ELSE mc

Dispatched(mc) == [mc EXCEPT !.dfail = (mc.err # "none")]

\* "handler()", reached unless the dispatch threw
handler_step(mc, ev) == IF mc.thrown THEN mc ELSE side_handler(mc, ev)

\* "if (_vm.active()) _vm.run()", reached unless something threw
run_step(mc) == IF mc.thrown THEN mc ELSE IF mc.active THEN run(mc) ELSE mc

handle_vm(mc, ev, ins) ==
    run_step(handler_step(Dispatched(exit_step(mc, ins)), ev))


(***************************************************************************)
(* Vm::start and the state block before it                                 *)
(***************************************************************************)
\* Vm::RAM_ADDRESS + KERNEL_OFFSET and RAM_ADDRESS + DTB_OFFSET
KernelEntry == W(\H8000, \H8000)

DtbAddress == W(\H8400, \H0000)

MACH_TYPE == 2272

Cp15Fields == {Cp15Regs[n].field : n \in 1..NumCp15Regs}

\* the block as Vm::Vm attaches it and Cp15::Cp15 then writes the reset
\* values: j is what the words start() will overwrite hold, elr what the
\* word gic_elrsr0 holds (start() does not write it)
PreStartState(j, elr) ==
    Cp15Init(
      [f \in Cp15Fields |-> j] @@
      [r |-> [i \in 0..15 |-> j], cpsr |-> j, cpu_exception |-> j,
       mode |-> [m \in 0..(ModeStateMAX - 1) |-> [spsr |-> j, sp |-> j, lr |-> j]],
       hsr |-> Zero32, hpfar |-> 0, hdfar |-> Zero32,
       gic_hcr |-> Lo(j), gic_vmcr |-> Lo(j), gic_apr |-> Lo(j),
       gic_misr |-> 0, gic_eisr |-> 0, gic_elrsr0 |-> elr,
       gic_lr |-> [i \in LrRange |-> Lo(j)], gic_irq |-> 0,
       timer_ctrl |-> Lo(j) % 8, timer_val |-> j, timer_irq |-> (j # Zero32)],
      NumCp15Regs)

\* Vm::start: memset of the Cpu_state_modes part, _load_kernel, _load_dtb and
\* the assignments that follow
start(st) ==
    [st EXCEPT
       !.r = [i \in 0..15 |->
                CASE i = 15 -> KernelEntry
                  [] i = 2  -> DtbAddress
                  [] i = 1  -> ToWord(MACH_TYPE)
                  [] OTHER  -> Zero32],
       !.cpsr = W(0, 147),
       !.cpu_exception = Zero32,
       !.mode = [m \in 0..(ModeStateMAX - 1) |->
                   [spsr |-> Zero32, sp |-> Zero32, lr |-> Zero32]],
       !.timer_ctrl = 0,
       !.timer_val = Zero32,
       !.timer_irq = FALSE,
       !.gic_hcr = 5,
       !.gic_vmcr = 4980736,
       !.gic_apr = 0,
       !.gic_lr = [i \in LrRange |-> 0]]

\* Vm::KERNEL_OFFSET, Vm::DTB_OFFSET and the ram_size Vmm::Vmm passes to Vm
KERNEL_OFFSET == 32768

DTB_OFFSET == 64 * 1024 * 1024

RamSize == 1024 * 1024 * 128

\* Genode::memcpy(_ram.local() + at, rom, len): the guest RAM is the list of
\* the copies made into it, oldest first
memcpy(mem, at, len, src) == Append(mem, [at |-> at, len |-> len, src |-> src])

\* Vm::_load_kernel and Vm::_load_dtb, the copies (start has the registers)
load_kernel(mem, size) == memcpy(mem, KERNEL_OFFSET, size, "linux")

load_dtb(mem, size) == memcpy(mem, DTB_OFFSET, size, "dtb")

\* the byte of guest RAM at offset off: <<rom, index>> of the last of the
\* first n copies that covers it, <<"none", 0>> if none does
RECURSIVE WrittenBy(_, _, _)
WrittenBy(mem, n, off) ==
    IF n = 0 THEN <<"none", 0>>
    ELSE IF off >= mem[n].at /\ off < mem[n].at + mem[n].len
         THEN <<mem[n].src, off - mem[n].at>>
         ELSE WrittenBy(mem, n - 1, off)

RamByte(mem, off) == WrittenBy(mem, Len(mem), off)

(***************************************************************************)
(* The host: what a VCPU exit leaves in the shared block                   *)
(***************************************************************************)
\* val placed at Bitfield<shift, width> of an otherwise zero word
Field(val, shift, width) ==
    IF shift >= 16 THEN W(val * Pow2(shift - 16), 0)
    ELSE IF shift + width <= 16 THEN W(0, val * Pow2(shift))
    ELSE W(val \div Pow2(16 - shift), (val % Pow2(16 - shift)) * Pow2(shift))

\* the or of words whose set bits do not overlap
Or32(a, b) == W(Hi(a) + Hi(b), Lo(a) + Lo(b))

\* the syndrome of a trapped MCR/MRC
Cp15Hsr(crn, op1, crm, op2, rt, dir) ==
    Or32(Field(Ec.CP15, 26, 6),
    Or32(Field(dir, 0, 1),
    Or32(Field(crm, 1, 4),
    Or32(Field(rt, 5, 4),
    Or32(Field(crn, 10, 4),
    Or32(Field(op1, 14, 3), Field(op2, 17, 3)))))))

\* the syndrome of a stage-2 data abort
DaHsr(wr, rt, size, valid, sext) ==
    Or32(Field(Ec.DA, 26, 6),
    Or32(Field(wr, 6, 1),
    Or32(Field(rt, 16, 4),
    Or32(Field(sext, 21, 1),
    Or32(Field(size, 22, 2), Field(valid, 24, 1))))))

\* the syndrome of a trapped WFI (wfe = 0) or WFE (wfe = 1)
WfiHsr(wfe) == Or32(Field(Ec.WFI, 26, 6), Field(wfe, 0, 1))

\* the syndrome of a hypervisor call, and one of a class the decoder does
\* not know
HvcHsr == Field(Ec.HVC, 26, 6)

OtherHsr == Field(32, 26, 6)

\* what the guest's registers hold at an exit: every slot a word of its own
\* (so that an access to the wrong slot shows), the register rt of the
\* guest's mode the operand
SlotTag(i) == W(\Haaaa, i)

BankOf(m) ==
    CASE m = PsrMode.FIQ   -> ModeStateIndex.FIQ
      [] m = PsrMode.IRQ   -> ModeStateIndex.IRQ
      [] m = PsrMode.SVC   -> ModeStateIndex.SVC
      [] m = PsrMode.ABORT -> ModeStateIndex.ABORT
      [] m = PsrMode.UND   -> ModeStateIndex.UND
      [] OTHER             -> -1

GuestMode(cpsr) == BankOf(PsrModeGet(cpsr))

GuestGpIn(bank, ip, rt, data) ==
    [i \in 0..15 |->
        IF i = 15 THEN ip
        ELSE IF i = rt /\ (i < 13 \/ bank = -1) THEN data
        ELSE SlotTag(i)]

GuestGp(ip, cpsr, rt, data) == GuestGpIn(GuestMode(cpsr), ip, rt, data)

GuestBankedIn(bank, rt, data) ==
    [m \in 0..(ModeStateMAX - 1) |->
        [spsr |-> Zero32,
         sp   |-> IF rt = 13 /\ bank = m THEN data ELSE SlotTag(256 + m),
         lr   |-> IF rt = 14 /\ bank = m THEN data ELSE SlotTag(512 + m)]]

GuestBanked(cpsr, rt, data) == GuestBankedIn(GuestMode(cpsr), rt, data)

\* register rt as the guest sees it in the block st, its mode banked in bank
GuestRegIn(st, bank, rt) ==
    IF rt = 13 /\ bank # -1 THEN st.mode[bank].sp
    ELSE IF rt = 14 /\ bank # -1 THEN st.mode[bank].lr
    ELSE st.r[rt]

\* register rt as the guest in mode cpsr sees it in the block st
GuestReg(st, cpsr, rt) == GuestRegIn(st, GuestMode(cpsr), rt)

\* the index in Cp15Regs of the register a syndrome names, 0 for none
RegsWith(enc) == {n \in 1..NumCp15Regs : Cp15Regs[n].encoding = enc}

OneOf(S) == IF S = {} THEN 0 ELSE CHOOSE n \in S : TRUE

RegOf(hsr) == OneOf(RegsWith(mask_encoding(hsr)))

\* what the guest knows it wrote if the exit is an MCR to a writable
\* register: the register and the value; n = 0 for any other exit
McrTo(n, v) ==
    IF n # 0 /\ Cp15Regs[n].writeable THEN [n |-> n, v |-> v] ELSE [n |-> 0, v |-> Zero32]

GuestMcr(exc, hsr, ip, rt, data) ==
    IF exc = ExcTRAP /\ EcGet(hsr) = Ec.CP15 /\ IssDirection(hsr) = 0
    THEN McrTo(RegOf(hsr), IF rt = 15 THEN ip ELSE data)
    ELSE [n |-> 0, v |-> Zero32]

\* the guest's record of its last MCR to a writable register after exit e
GuestWrote(w, e) == IF e.mcr.n # 0 THEN e.mcr ELSE w

\* the host's save of the guest context at an exit e
HostSave(st, e) ==
    [st EXCEPT !.cpu_exception = e.exc, !.hsr = e.hsr, !.hpfar = e.hpfar,
               !.hdfar = e.hdfar, !.gic_irq = e.gic_irq, !.gic_misr = e.misr,
               !.gic_eisr = e.eisr, !.cpsr = e.cpsr,
               !.r = e.gp, !.mode = e.banked,
               !.timer_ctrl = e.timer_ctrl, !.timer_val = e.timer_val]

\* an exit record
Exit(exc, hsr, hpfar, hdfar, gic_irq, misr, eisr, ip, cpsr, rt, data, tctl, tval) ==
    [exc |-> exc, hsr |-> hsr, hpfar |-> hpfar, hdfar |-> hdfar, gic_irq |-> gic_irq,
     misr |-> misr, eisr |-> eisr, ip |-> ip, cpsr |-> cpsr, rt |-> rt, data |-> data,
     gp |-> GuestGp(ip, cpsr, rt, data), banked |-> GuestBanked(cpsr, rt, data),
     mcr |-> GuestMcr(exc, hsr, ip, rt, data),
     timer_ctrl |-> tctl, timer_val |-> tval]


(***************************************************************************)
(* The exits the guest and the host produce                                *)
(***************************************************************************)
\* where the guest stands at an exit, its CPSR in SVC and in USR mode, the
\* operand of a store and the timer value the guest programmed
GuestIp == W(\H8000, \H9000)

CpsrSVC == W(0, 147)

CpsrUSR == W(0, 16)

GuestTval == ToWord(24000)

\* a trap at GuestIp in SVC mode with the timer unmasked
Trap(hsr, hpfar, hdfar, rt, data) ==
    Exit(ExcTRAP, hsr, hpfar, hdfar, 0, 0, 0, GuestIp, CpsrSVC, rt, data, 1, GuestTval)

\* a data abort on offset off of device dev
Da(dev, off, wr, size, rt, data) ==
    Trap(DaHsr(wr, rt, size, 1, 0), Devices[dev].addr \div 256, ToWord(off), rt, data)

\* a host interrupt irq taken while the guest ran
HostIrq(irq, misr, eisr) ==
    Exit(ExcIRQ, Zero32, 0, Zero32, irq, misr, eisr, GuestIp, CpsrSVC, 0, Zero32,
         1, GuestTval)

\* the list registers whose EOI the hardware reports: in flight, written
\* with the maintenance flag
EoiReporting(st) ==
    {i \in LrRange : BitOf(st.gic_elrsr0, i) = 0 /\ BitOf(LrPhysId(st.gic_lr[i]), 9) = 1}

SetToBits(S) == LET b(i) == IF i \in S THEN Pow2(i) ELSE 0
                IN  b(0) + b(1) + b(2) + b(3)

\* host interrupts: the maintenance interrupt with the EOIs of some list
\* registers or with none, the virtual timer's, one the VMM does not know
IrqExits(st) ==
    {HostIrq(VT_MAINTAINANCE_IRQ, 1, SetToBits(S)) : S \in SUBSET EoiReporting(st)}
    \cup {HostIrq(VT_MAINTAINANCE_IRQ, 0, 0), HostIrq(VT_TIMER_IRQ, 0, 0),
          HostIrq(29, 0, 0)}

\* WFI with the timer unmasked or masked, WFE
WfiExits ==
    {Exit(ExcTRAP, WfiHsr(0), 0, Zero32, 0, 0, 0, GuestIp, CpsrSVC, 0, Zero32, c, GuestTval) :
        c \in {1, 5}}
    \cup {Trap(WfiHsr(1), 0, Zero32, 0, Zero32)}

\* a hypervisor call, a trap of an unknown class, an exception handle_vm
\* does not know
OddExits ==
    {Trap(HvcHsr, 0, Zero32, 0, Zero32), Trap(OtherHsr, 0, Zero32, 0, Zero32),
     Exit(W(0, 4), Zero32, 0, Zero32, 0, 0, 0, GuestIp, CpsrSVC, 0, Zero32, 1, GuestTval)}

\* distributor accesses: enable and disable the timer's and the UART's
\* interrupt, switch the distributor on, read TYPER, a register that is not
\* emulated, a halfword access
GicExits ==
    {Da("Gic", GICD.ISENABLER0, 1, AccessSize.WORD, 3, W(\H0800, 0)),
     Da("Gic", GICD.ICENABLER0, 1, AccessSize.WORD, 3, W(\H0800, 0)),
     Da("Gic", GICD.ISENABLER0 + 4, 1, AccessSize.WORD, 3, W(0, 32)),
     Da("Gic", GICD.CTLR, 1, AccessSize.WORD, 3, W(0, 1)),
     Da("Gic", GICD.TYPER, 0, AccessSize.WORD, 3, Zero32),
     Da("Gic", 16, 1, AccessSize.WORD, 3, Zero32),
     Da("Gic", GICD.CTLR, 1, AccessSize.HALFWORD, 3, W(0, 1))}

\* other data aborts: an address no device of the tree covers (the timer's
\* window), a syndrome without a valid ISS, a system-register read and a
\* write it rejects, UART flag and mask registers
DaExits ==
    {Da("Timer", 0, 0, AccessSize.WORD, 3, Zero32),
     Trap(DaHsr(1, 3, AccessSize.WORD, 0, 0), Devices.Gic.addr \div 256, Zero32, 3, Zero32),
     Da("Sys", SYS.PROCID0, 0, AccessSize.WORD, 3, Zero32),
     Da("Sys", SYS.MISC, 1, AccessSize.WORD, 3, Zero32),
     Da("Pl011", UART.FR, 0, AccessSize.HALFWORD, 3, Zero32),
     Da("Pl011", UART.IMSC, 1, AccessSize.HALFWORD, 3, W(0, 16))}

\* a CP15 access in SVC mode
Cp15Trap(crn, op1, crm, op2, rt, dir, data) ==
    Trap(Cp15Hsr(crn, op1, crm, op2, rt, dir), 0, Zero32, rt, data)

\* CP15 accesses of the boot path: read MIDR into r5, write MIDR, an
\* encoding that is not registered
FewCp15Exits ==
    {Cp15Trap(0, 0, 0, 0, 5, 1, Zero32), Cp15Trap(0, 0, 0, 0, 5, 0, W(1, 2)),
     Cp15Trap(15, 0, 0, 0, 5, 1, Zero32)}

MainExits(st) == IrqExits(st) \cup WfiExits \cup OddExits \cup GicExits \cup DaExits
                 \cup FewCp15Exits

\* what the terminal delivers with one read-avail signal
TermInputs == {<<65>>}


(***************************************************************************)
(* State and actions                                                       *)
(***************************************************************************)
VARIABLES
    state,          \* the shared CPU-state block (State & Vm::_state)
    active,         \* Vm::_active
    irqs,           \* Gic::_irqs
    distr_enabled,  \* Gic::_distr_enabled
    running,        \* the host's VCPU is executing guest code
    exit_sig,       \* an exit signal waits for Signal_handler<Vmm>
    timer,          \* the host one-shot of Generic_timer::_timer
    uart,           \* the Pl011 members
    term_in,        \* bytes the terminal holds for Pl011::_read
    term_out,       \* bytes written to the terminal
    spi_data,       \* System_register::_spi_data
    spi_stat,       \* System_register::_spi_stat
    booted,         \* Vmm::Vmm has called _vm.start() and _vm.run()
    term_events,    \* terminal events delivered so far
    cp15_wrote,     \* the guest's last MCR to a writable register: which, what
    ram,            \* the guest RAM: the copies made into it, oldest first
    roms,           \* the sizes of the ROM modules "linux" and "dtb"
    guest,          \* what the guest and the terminal know of the UART traffic
    probe,          \* the last application of a pure function and its result
    out             \* what the handler invocation did after which the guest
                    \* has not run on: the event, the branch dispatched, the
                    \* error, pause/run, PC before and after

vars == <<state, active, irqs, distr_enabled, running, exit_sig, timer, uart,
          term_in, term_out, spi_data, spi_stat, booted, term_events, cp15_wrote,
          ram, roms, guest, probe, out>>

\* bounds of the model
MaxTermEvents == 1

MaxDirty == 1

\* the words start() overwrites, before it runs
JunkWords == {Zero32, W(\Hdead, \Hbeef)}

\* gic_elrsr0 as the host hands the block over: a zero-filled word, one with
\* some of the low NR_IRQ bits set, one with all of them set
AnyElrsr == {0, 5, Pow2(NR_IRQ) - 1}

NoOutcome ==
    [ev |-> "none", disp |-> "none", err |-> "none", thrown |-> FALSE, ran |-> FALSE,
     paused |-> FALSE, race |-> FALSE, warned |-> FALSE, dfail |-> FALSE,
     run0 |-> FALSE, ip0 |-> Zero32, ip1 |-> Zero32, cpsr0 |-> Zero32]

\* the ROM modules: a kernel image of 4 MiB, a device tree of 64 KiB
KernelSize == 4 * 1024 * 1024

DtbSize == 64 * 1024

\* no pure function has been applied
NoProbe == [op |-> "none"]

\* the members after Vmm's member initialisers, before the constructor body
InitOf(elrs, kernels) ==
    /\ \E j \in JunkWords, elr \in elrs : state = PreStartState(j, elr)
    /\ \E k \in kernels : roms = [linux |-> k, dtb |-> DtbSize]
    /\ ram = <<>>
    /\ guest = [tx |-> <<>>, rx |-> <<>>, sent |-> <<>>, got |-> FALSE]
    /\ probe = NoProbe
    /\ active = TRUE
    /\ irqs = register_irq(register_irq(GicCtorIrqs, VT_TIMER_IRQ, "Timer", TRUE),
                           PL011_0_IRQ, "Pl011", FALSE)
    /\ distr_enabled = FALSE
    /\ running = FALSE
    /\ exit_sig = FALSE
    /\ timer = [armed |-> FALSE, us |-> 0]
    /\ uart = UartInit
    /\ term_in = <<>>
    /\ term_out = <<>>
    /\ spi_data = Zero32
    /\ spi_stat = W(0, 1)
    /\ booted = FALSE
    /\ term_events = 0
    /\ cp15_wrote = [n |-> 0, v |-> Zero32]
    /\ out = NoOutcome

\* the same with a kernel image of the usual size
InitWith(elrs) == InitOf(elrs, {KernelSize})

\* the machine a handler starts from
Mc ==
    [st |-> state, active |-> active, irqs |-> irqs, distr_enabled |-> distr_enabled,
     running |-> running, timer |-> timer, uart |-> uart, term_in |-> term_in,
     term_out |-> term_out, spi_data |-> spi_data, spi_stat |-> spi_stat,
     err |-> "none", thrown |-> FALSE, warned |-> FALSE, disp |-> "none", told |-> <<>>,
     ran |-> FALSE, paused |-> FALSE, race |-> FALSE, dfail |-> FALSE]

\* the machine a handler ends in, written back
Commit(m, ev) ==
    /\ state' = m.st
    /\ active' = m.active
    /\ irqs' = m.irqs
    /\ distr_enabled' = m.distr_enabled
    /\ running' = m.running
    /\ timer' = m.timer
    /\ uart' = m.uart
    /\ term_in' = m.term_in
    /\ term_out' = m.term_out
    /\ spi_data' = m.spi_data
    /\ spi_stat' = m.spi_stat
    /\ out' = [ev |-> ev, disp |-> m.disp, err |-> m.err, thrown |-> m.thrown,
               ran |-> m.ran, paused |-> m.paused, race |-> m.race,
               warned |-> m.warned, dfail |-> m.dfail, run0 |-> running,
               ip0 |-> Ip(state), ip1 |-> Ip(m.st), cpsr0 |-> state.cpsr]

\* what the build and the services leave open for one handler run: the word
\* an out-of-bounds register slot aliases, the bits read past the IRQ table,
\* the elapsed milliseconds.  Each set is a singleton when the run cannot
\* depend on the choice.
Inputs ==
    {[oob |-> o, junk |-> j, ms |-> t] :
        o \in (IF mode_offset(state.cpsr) = -1 THEN OobWords ELSE {"ip"}),
        j \in (IF EcGet(state.hsr) = Ec.DA /\ DaWrite(state.hsr) = 0
                  /\ state.hpfar * 256 = Devices.Gic.addr THEN {0, 1} ELSE {0}),
        t \in (IF EcGet(state.hsr) = Ec.DA /\ DaWrite(state.hsr) = 0
                  /\ state.hpfar * 256 = Devices.Sys.addr THEN {0, 1} ELSE {0})}

\* the block st describes a data abort on offset off of the UART, a write
\* (wr = 1) or a read (wr = 0), of one of the access sizes
UartAccess(st, wr, off, sizes) ==
    /\ st.cpu_exception = ExcTRAP
    /\ EcGet(st.hsr) = Ec.DA
    /\ IssValid(st.hsr)
    /\ DaWrite(st.hsr) = wr
    /\ DaAccessSize(st.hsr) \in sizes
    /\ st.hpfar * 256 = Devices.Pl011.addr
    /\ DaOffset(st, "Pl011") = off

\* the guest has left with the exit the block s holds: a byte or halfword
\* store to UARTDR adds the low byte of the stored register to what the guest
\* has sent
GuestSent(g, s) ==
    IF UartAccess(s, 1, UART.DR, {AccessSize.BYTE, AccessSize.HALFWORD})
    THEN [g EXCEPT !.tx = Append(@, Lo(GuestReg(s, s.cpsr, DaRegister(s.hsr))) % 256),
                   !.got = FALSE]
    ELSE [g EXCEPT !.got = FALSE]

\* the exit the block holds has not been dispatched yet: the guest stands on
\* the trapped instruction
Fresh == exit_sig /\ out.ev = "none"

\* the value the load from UARTDR has left in the guest's register
Loaded(m) == Lo(GuestReg(m.st, state.cpsr, DaRegister(state.hsr)))

\* a handler has run and left the machine m: if it emulated a load from
\* UARTDR, the guest goes on with the value in its register; an emulation of
\* the same exit once more replaces the value the guest had got
GuestGot(g, m) ==
    IF m.disp = "DA" /\ ~m.dfail
       /\ UartAccess(state, 0, UART.DR, {AccessSize.HALFWORD, AccessSize.WORD})
    THEN [g EXCEPT !.rx = IF g.got THEN [@ EXCEPT ![Len(@)] = Loaded(m)]
                          ELSE Append(@, Loaded(m)),
                   !.got = TRUE]
    ELSE g

\* the body of Vmm::Vmm: _vm.start(); _vm.run()
VmStart ==
    /\ ~booted
    /\ booted' = TRUE
    /\ \E m \in {run([Mc EXCEPT !.st = start(state)])} : Commit(m, "start")
    /\ ram' = load_dtb(load_kernel(ram, roms.linux), roms.dtb)
    /\ UNCHANGED <<exit_sig, term_events, cp15_wrote, roms, guest, probe>>

\* the VCPU leaves the guest with one of the exits E and signals it
VcpuExit(E) ==
    /\ booted
    /\ running
    /\ \E e \in E : \E s \in {HostSave(state, e)} :
          /\ state' = s
          /\ cp15_wrote' = GuestWrote(cp15_wrote, e)
          /\ guest' = GuestSent(guest, s)
    /\ running' = FALSE
    /\ exit_sig' = TRUE
    /\ out' = NoOutcome
    /\ UNCHANGED <<active, irqs, distr_enabled, timer, uart, term_in, term_out,
                   spi_data, spi_stat, booted, term_events, ram, roms, probe>>

\* Signal_handler<Vmm>::handle on the exit signal: handle_vm(Vmm::_handle)
HandleExit ==
    /\ booted
    /\ exit_sig
    /\ exit_sig' = FALSE
    /\ \E m \in {handle_vm(Mc, "exit", ins) : ins \in Inputs} :
          /\ Commit(m, "exit")
          /\ guest' = GuestGot(guest, m)
    /\ UNCHANGED <<booted, term_events, cp15_wrote, ram, roms, probe>>

\* Signal_handler<Generic_timer>::handle when the one-shot expires:
\* handle_vm(Generic_timer::_timeout)
HandleTimeout ==
    /\ booted
    /\ timer.armed
    /\ \E m \in {handle_vm([Mc EXCEPT !.timer.armed = FALSE], "timeout", ins) :
                    ins \in Inputs} :
          /\ Commit(m, "timeout")
          /\ guest' = GuestGot(guest, m)
    /\ UNCHANGED <<exit_sig, booted, term_events, cp15_wrote, ram, roms, probe>>

\* Signal_handler<Pl011>::handle on the terminal's read-avail signal, the
\* terminal holding the bytes b: handle_vm(Pl011::_read)
TerminalEvent(T, most) ==
    /\ booted
    /\ term_events < most
    /\ term_events' = term_events + 1
    /\ \E b \in T :
          \E m \in {handle_vm([Mc EXCEPT !.term_in = @ \o b], "terminal", ins) :
                      ins \in Inputs} :
             /\ Commit(m, "terminal")
             /\ guest' = GuestGot([guest EXCEPT !.sent = @ \o b], m)
    /\ UNCHANGED <<exit_sig, booted, cp15_wrote, ram, roms, probe>>

HandleTerminal(T) == TerminalEvent(T, MaxTermEvents)


\* the event loop with the exits of MainExits
Init == InitWith(AnyElrsr)

Next ==
    \/ VmStart
    \/ VcpuExit(MainExits(state))
    \/ HandleExit
    \/ HandleTimeout
    \/ HandleTerminal(TermInputs)

Spec == Init /\ [][Next]_vars


(***************************************************************************)
(* The virtual GIC                                                         *)
(***************************************************************************)
\* the IRQs registered with eoi == true
EoiIrqs == {i \in {VT_TIMER_IRQ, PL011_0_IRQ} : irqs[i].eoi}

\* C1: for every IRQ registered with eoi == true, cpu_state == PENDING
\* implies that exactly one list register in flight (elrsr0 bit clear) holds
\* its virtual id.
C1_PendingHasOneListRegister ==
    \A i \in EoiIrqs :
        irqs[i].cpu_state = "PENDING" => Cardinality(InFlightWith(state, i)) = 1

\* the number of list registers marked free, and of those that hold a value
FreeCount(st) == Cardinality(FreeLrs(st))

UsedCount(st) == Cardinality({i \in LrRange : st.gic_lr[i] # 0})

\* C2: in every state after Vm::start(), the number of free bits among the
\* low N bits of gic_elrsr0 plus the number of non-zero list registers is N,
\* and bit i of gic_elrsr0 is set exactly when list register i is free.
C2_ListRegisterAccounting ==
    booted =>
        /\ FreeCount(state) + UsedCount(state) = NR_IRQ
        /\ \A i \in LrRange : (BitOf(state.gic_elrsr0, i) = 1) <=> (state.gic_lr[i] = 0)

\* the vGIC view Vm::start() is to leave
VgicReset(st) ==
    /\ st.gic_hcr = 5
    /\ st.gic_vmcr = 4980736
    /\ st.gic_apr = 0
    /\ \A i \in LrRange : st.gic_lr[i] = 0
    /\ FreeLrs(st) = LrRange

\* C3: immediately after Vm::start(), gic_hcr == 0b101, gic_vmcr == 0x4c0000,
\* gic_apr == 0, every list register is 0 and the low N bits of gic_elrsr0
\* are set, so that a first injection finds a free slot.
C3_StartResetsVgic == [][VmStart => VgicReset(state')]_vars

(***************************************************************************)
(* The event loop                                                          *)
(***************************************************************************)
\* C4: a handler invocation touches the shared block only while the VCPU is
\* not running (after its pause, or while the VCPU is halted or not yet
\* run), and the VCPU is resumed on return only if vm.active is true.
C4_StateTouchedOnlyWhilePaused ==
    /\ ~out.race
    /\ out.ran => active
    /\ running => active

\* a timer or terminal handler found the VCPU running, paused it, worked on
\* the block and resumed it
C4_Witness ==
    /\ out.ev \in {"timeout", "terminal"}
    /\ out.run0
    /\ out.paused
    /\ out.ran
    /\ running

\* C6: when the dispatch of an exit fails (any error of the taxonomy), the
\* handle_vm invocation does not resume the VCPU.
C6_FailureDoesNotResume == out.dfail => ~out.ran

\* the branches of Vmm::_handle_trap
TrapBranches == {"HVC", "CP15", "DA", "WFI", "TRAP"}

\* PC after a dispatched trap, against the branches allowed to advance it
PcRule(advancing) ==
    out.disp \in TrapBranches =>
        /\ out.dfail => out.ip1 = out.ip0
        /\ out.ip1 = Add32(out.ip0, 4) => ~out.dfail /\ out.disp \in advancing

\* C7 as stated: a failed trap dispatch leaves PC where it was, and PC is
\* advanced by exactly 4 only when a CP15 or data-abort handler succeeds.
C7_PcOnlyCp15OrDa == PcRule({"CP15", "DA"})

\* C7: a failed trap dispatch leaves PC where it was, and PC is advanced by
\* exactly 4 only when a CP15, data-abort or WFI handler succeeds.
C7_PcOnlySuccess == PcRule({"CP15", "DA", "WFI"})

\* a WFI was handled and PC stepped over it
C7_Witness ==
    /\ out.disp = "WFI"
    /\ ~out.dfail
    /\ out.ip1 = Add32(out.ip0, 4)

(***************************************************************************)
(* WFI: halt and wake                                                      *)
(***************************************************************************)
\* the exit handler has just handled a WFI, the timer not masked and its
\* interrupt enabled in the distributor
WfiHandled ==
    /\ out.ev = "exit"
    /\ out.disp = "WFI"
    /\ ~out.dfail
    /\ CtrlMask(state.timer_ctrl) # 5
    /\ irqs[VT_TIMER_IRQ].distr_state = "ENABLED"

\* the VCPU is halted and the one-shot armed for timer_val / 24 microseconds
WfiHalted ==
    /\ ~active
    /\ ~running
    /\ ~out.ran
    /\ timer.armed
    /\ timer.us = Div24(state.timer_val)

\* the timer handler has put the timer's interrupt in a list register and
\* resumed the VCPU behind the WFI
WfiWoken ==
    /\ out.ev = "timeout"
    /\ InFlightWith(state, VT_TIMER_IRQ) # {}
    /\ active
    /\ running
    /\ out.ran
    /\ out.ip1 = Add32(GuestIp, 4)

\* C5: a WFI with the virtual timer not masked and its interrupt enabled
\* halts the VCPU and arms the one-shot for timer_val / 24 microseconds, and
\* when the one-shot expires the timer handler puts the timer's interrupt in
\* a list register and re-activates and resumes the VCPU with PC = WFI
\* address + 4.  The halted VCPU takes no step of its own, so the expiry of
\* the one-shot is the only event the claim can rest on: it holds exactly
\* when every such expiry wakes the VCPU.
C5_WfiHaltsAndWakes ==
    [][WfiHandled => WfiHalted /\ (out'.ev = "timeout" => WfiWoken')]_vars

(***************************************************************************)
(* The CP15 register file under guest accesses                             *)
(***************************************************************************)
\* the operands of the guest's MCR/MRC: the register Rt, the CPSR and the
\* COND/CV bits of the syndrome.  r5, sp and lr with and without a banked
\* copy, pc; syndromes without and with COND/CV set
CheckedOperands ==
    {[rt |-> 5,  cpsr |-> CpsrSVC, cond |-> 0],
     [rt |-> 13, cpsr |-> CpsrSVC, cond |-> 31],
     [rt |-> 13, cpsr |-> CpsrUSR, cond |-> 0],
     [rt |-> 14, cpsr |-> CpsrUSR, cond |-> 31],
     [rt |-> 15, cpsr |-> CpsrSVC, cond |-> 0]}

\* the value the guest writes
GuestData == W(\H1234, \H5678)

\* the encodings accessed: every register of the file, and one that is none
UnknownEncoding == IssValue(15, 0, 0, 0)

CheckedEncodings == {Cp15Regs[n].encoding : n \in 1..NumCp15Regs} \cup {UnknownEncoding}

\* an MCR (dir = 0) or MRC (dir = 1) trap
Cp15Exit(enc, rt, dir, cond, cpsr) ==
    Exit(ExcTRAP,
         Or32(Field(Ec.CP15, 26, 6),
         Or32(ToWord(enc), Or32(Field(cond, 20, 5), Or32(Field(rt, 5, 4), Field(dir, 0, 1))))),
         0, Zero32, 0, 0, 0, GuestIp, cpsr, rt,
         IF dir = 0 THEN GuestData ELSE Zero32, 1, GuestTval)

Cp15ExitsOf(encs, ops, dirs) ==
    {Cp15Exit(enc, o.rt, dir, o.cond, o.cpsr) : enc \in encs, o \in ops, dir \in dirs}

WriteableRegs == {n \in 1..NumCp15Regs : Cp15Regs[n].writeable}

\* the writable registers the guest writes: SCTRL (reset value 0), DACR
\* (reset value not 0), CONTEXTIDR (the last of the file)
WrittenRegs == {n \in WriteableRegs : Cp15Regs[n].name \in {"SCTRL", "DACR", "CONTEXTIDR"}}

\* the encodings read with every operand: MIDR, the registers the guest
\* writes, the one that is none
ProbedEncodings ==
    {Cp15Regs[1].encoding, UnknownEncoding} \cup {Cp15Regs[n].encoding : n \in WrittenRegs}

\* the MRCs (every encoding into r5, the probed ones with every operand), and
\* the MCRs that will be refused (with every operand)
PlainCp15Exits ==
    Cp15ExitsOf(CheckedEncodings, {[rt |-> 5, cpsr |-> CpsrSVC, cond |-> 0]}, {1})
    \cup Cp15ExitsOf(ProbedEncodings, CheckedOperands, {1})
    \cup Cp15ExitsOf(CheckedEncodings \ {Cp15Regs[n].encoding : n \in WriteableRegs},
                     CheckedOperands, {0})

\* the MCRs to the writable register n
McrExits == [n \in WrittenRegs |-> Cp15ExitsOf({Cp15Regs[n].encoding}, CheckedOperands, {0})]

\* the writable registers that differ from their reset value
Dirty(st) == {n \in WriteableRegs : RegRead(st, n) # Cp15Regs[n].init_value}

\* the exits taken: an MCR to a writable register only while at most
\* MaxDirty registers differ from reset
Cp15Exits(st) ==
    LET d == Dirty(st)
    IN  PlainCp15Exits
        \cup UNION {McrExits[n] : n \in {k \in WrittenRegs :
                                            Cardinality(d \cup {k}) <= MaxDirty}}

NextCp15 ==
    \/ VmStart
    \/ VcpuExit(Cp15Exits(state))
    \/ HandleExit

\* the list registers have no part in a CP15 trap: one value of gic_elrsr0
InitCp15 == InitWith({0})

SpecCp15 == InitCp15 /\ [][NextCp15]_vars

\* C8: the backing field of every register that is not writeable holds its
\* reset value, from construction on and after any guest CP15 traps.
C8_ReadOnlyKeepReset ==
    \A n \in 1..NumCp15Regs :
        ~Cp15Regs[n].writeable => RegRead(state, n) = Cp15Regs[n].init_value

\* the guest's MCR to a register that is not writeable has been handled
C8_Witness ==
    /\ out.ev = "exit"
    /\ out.disp = "CP15"
    /\ out.err = "CP15WriteProtected"
    /\ C8_ReadOnlyKeepReset

\* the exit handler has just handled the CP15 trap the block describes
Cp15Handled == out.ev = "exit" /\ ~exit_sig /\ out.disp = "CP15"

\* C9: an MCR of v from Rt to a writable register followed by an MRC of the
\* same encoding into Rt' leaves v in the guest's register Rt', and each of
\* the two traps succeeds and advances PC by 4.
C9_Cp15RoundTrip ==
    LET n  == RegOf(state.hsr)
        rt == IssRegister(state.hsr)
    IN  (Cp15Handled /\ n # 0 /\ Cp15Regs[n].writeable) =>
            /\ ~out.dfail
            /\ out.ip1 = Add32(out.ip0, 4)
            /\ (IssDirection(state.hsr) = 1 /\ cp15_wrote.n = n)
                  => GuestReg(state, out.cpsr0, rt) = cp15_wrote.v

\* C10: an MRC of a registered encoding into Rt succeeds whatever Rt, the
\* direction and the other syndrome bits are, leaves the register's backing
\* field in the guest's register Rt and advances PC by 4; MIDR read into r5
\* gives 0x412FC0F1; an encoding that is not registered is refused.
C10_Cp15Read ==
    LET n  == RegOf(state.hsr)
        rt == IssRegister(state.hsr)
    IN  Cp15Handled =>
            /\ (n = 0) <=> (out.err = "UnknownCP15")
            /\ (n # 0 /\ IssDirection(state.hsr) = 1) =>
                  /\ ~out.dfail
                  /\ GuestReg(state, out.cpsr0, rt) = RegRead(state, n)
                  /\ out.ip1 = Add32(out.ip0, 4)
                  /\ (n = 1 /\ rt = 5) => state.r[5] = W(\H412f, \Hc0f1)

(***************************************************************************)
(* The pure functions of the monitor, applied to inputs of their own       *)
(***************************************************************************)
\* the CPSR values State::r is applied to: each of the 32 mode encodings,
\* with the I and F bits set and with flags N and Z set
CheckedCpsrs == {W(0, 192 + m) : m \in 0..31} \cup {W(\Hc000, m) : m \in 0..31}

\* State::r(i) on a block whose CPSR is c
ResolveRegister ==
    /\ probe = NoProbe
    /\ \E c \in CheckedCpsrs, i \in 0..15 :
          \E oob \in (IF mode_offset(c) = -1 /\ i \in {13, 14} THEN OobWords ELSE {"ip"}) :
             probe' = [op |-> "r", cpsr |-> c, i |-> i,
                       loc |-> r([state EXCEPT !.cpsr = c], i, oob)]
    /\ UNCHANGED <<state, active, irqs, distr_enabled, running, exit_sig, timer, uart,
                   term_in, term_out, spi_data, spi_stat, booted, term_events,
                   cp15_wrote, ram, roms, guest, out>>

\* bounds of the device sets looked up: addresses 0..MaxAddr, up to
\* MaxDevSize addresses a device
MaxAddr == 5

MaxDevSize == 2

DevNames == {"a", "b", "c"}

\* the windows a device can cover: at least one address, within 0..MaxAddr
DevRanges ==
    {[addr |-> b, size |-> n] : b \in 0..MaxAddr, n \in 1..MaxDevSize}

Disjoint(x, y) == x.addr + x.size <= y.addr \/ y.addr + y.size <= x.addr

\* the device sets with pairwise disjoint ranges
DeviceSets ==
    {D \in UNION {[N -> DevRanges] : N \in SUBSET DevNames} :
        \A d, e \in DOMAIN D : d # e => Disjoint(D[d], D[e])}

\* the orders a set of devices can be inserted in
InsertOrders(N) ==
    {o \in [1..Cardinality(N) -> N] : \A i, j \in DOMAIN o : o[i] = o[j] => i = j}

\* the devices D inserted in some order, then a looked up from the root
LookupDevice ==
    /\ probe = NoProbe
    /\ \E D \in DeviceSets : \E o \in InsertOrders(DOMAIN D) : \E a \in 0..(MaxAddr + MaxDevSize) :
          probe' = [op |-> "find_by_addr", devs |-> D, order |-> o, a |-> a,
                    found |-> lookup(D, DevTreeBuild(D, o, Len(o)), a)]
    /\ UNCHANGED <<state, active, irqs, distr_enabled, running, exit_sig, timer, uart,
                   term_in, term_out, spi_data, spi_stat, booted, term_events,
                   cp15_wrote, ram, roms, guest, out>>

\* the faulting addresses decoded: bits 31..16 and 15..12 of hdfar (the
\* guest virtual address) and its offset in the page
FaultUpper == {0, \Hc0de}

FaultPages == {0, 1, 2, 15}

FaultLow == {0, 4, \Hffc}

\* the block st with the fault registers of a data abort on page pg of the
\* device d
Faulted(st, d, pg, hd) ==
    [st EXCEPT !.hpfar = (Devices[d].addr + pg * 4096) \div 256, !.hdfar = hd]

\* Vmm::_handle_data_abort finds the device, Device::handle_memory_access
\* computes the offset it passes to the device's read or write
DecodedOffset(st) ==
    [op |-> "offset", hpfar |-> st.hpfar, hdfar |-> st.hdfar,
     dev |-> device_at(st.hpfar * 256),
     off |-> DaOffset(st, device_at(st.hpfar * 256))]

DecodeOffset ==
    /\ probe = NoProbe
    /\ \E d \in {InsertedDevices[n] : n \in DOMAIN InsertedDevices} :
          \E pg \in 0..(Devices[d].size \div 4096 - 1) :
             \E up \in FaultUpper, vp \in FaultPages, lo \in FaultLow :
                probe' = DecodedOffset(Faulted(state, d, pg, W(up, vp * 4096 + lo)))
    /\ UNCHANGED <<state, active, irqs, distr_enabled, running, exit_sig, timer, uart,
                   term_in, term_out, spi_data, spi_stat, booted, term_events,
                   cp15_wrote, ram, roms, guest, out>>

NextPure ==
    \/ ResolveRegister
    \/ LookupDevice
    \/ DecodeOffset

InitPure == InitWith({0})

SpecPure == InitPure /\ [][NextPure]_vars

\* the banked slot the mode m is claimed to have, -1 for none
ClaimedSlot(m) ==
    CASE m = PsrMode.FIQ   -> 0
      [] m = PsrMode.IRQ   -> 1
      [] m = PsrMode.SVC   -> 2
      [] m = PsrMode.ABORT -> 3
      [] m = PsrMode.UND   -> 4
      [] OTHER             -> -1

\* the location register i is claimed to resolve to in a mode with slot
ClaimedRegister(slot, i) ==
    IF i \in {13, 14} /\ slot # -1
    THEN <<IF i = 13 THEN "sp" ELSE "lr", slot>>
    ELSE <<"gp", i>>

\* C11: for every CPSR value and i in {13, 14}, State::r(i) resolves to the
\* top-level sp/lr when the mode is none of FIQ, IRQ, SVC, ABT, UND, and
\* otherwise to the banked sp/lr slot of the mode, FIQ -> 0, IRQ -> 1,
\* SVC -> 2, ABT -> 3, UND -> 4; for every other i in 0..15 it resolves to
\* the i-th general-purpose register.
C11_BankedRegisterAccessor ==
    probe.op = "r" =>
        probe.loc = ClaimedRegister(ClaimedSlot(PsrModeGet(probe.cpsr)), probe.i)

\* the devices of D whose range holds a
Covering(D, a) == {d \in DOMAIN D : D[d].addr <= a /\ a < D[d].addr + D[d].size}

\* C12: for every address a and every set of devices with pairwise disjoint
\* ranges (each covering at least one address) inserted in any order,
\* find_by_addr(a) started at the tree root returns the one device D with
\* D.base <= a < D.base + D.size, and nil exactly when there is none.
C12_DeviceLookup ==
    probe.op = "find_by_addr" =>
        /\ (probe.found = "") <=> (Covering(probe.devs, probe.a) = {})
        /\ Covering(probe.devs, probe.a) # {}
              => Covering(probe.devs, probe.a) = {probe.found}

\* three devices, and the lookup went down two levels to find the one that
\* covers the address
C12_Witness ==
    /\ probe.op = "find_by_addr"
    /\ DOMAIN probe.devs = DevNames
    /\ probe.found = probe.order[3]
    /\ probe.found \notin {probe.order[1], probe.order[2]}
    /\ \/ DeviceHigher(probe.devs, probe.order[1], probe.order[2])
          /\ DeviceHigher(probe.devs, probe.order[2], probe.order[3])
       \/ DeviceHigher(probe.devs, probe.order[2], probe.order[1])
          /\ DeviceHigher(probe.devs, probe.order[3], probe.order[2])

(***************************************************************************)
(* MMIO dispatch                                                           *)
(***************************************************************************)
\* the exit handler has just dispatched the data abort the block describes
DaHandled == out.ev = "exit" /\ ~exit_sig /\ out.disp = "DA"

\* C13: a data abort whose IPA lies in the range of the GIC distributor, the
\* generic timer, the system registers or the PL011 is handed to that device,
\* and NoDeviceAtIPA is raised only for IPAs outside all four ranges.
C13_EveryDeviceReachable ==
    DaHandled =>
        /\ (out.err = "NoDeviceAtIPA") => (Covering(Devices, state.hpfar * 256) = {})
        /\ Covering(Devices, state.hpfar * 256) # {}
              => Covering(Devices, state.hpfar * 256) = {device_at(state.hpfar * 256)}

(***************************************************************************)
(* The distributor and the list registers under guest and host accesses    *)
(***************************************************************************)
\* a word store of P to, and a word load from, offset off of the distributor
GicStore(off, P) == Da("Gic", off, 1, AccessSize.WORD, 3, P)

GicLoad(off) == Da("Gic", off, 0, AccessSize.WORD, 3, Zero32)

\* the patterns written to the enable registers 0 and 1: the timer's IRQ 27,
\* with SGI 0, SGI 0 alone; the UART's IRQ 37, with IRQ 32 that has no owner
EnablePatterns ==
    {<<0, W(\H0800, 0)>>, <<0, W(\H0800, 1)>>, <<0, W(0, 1)>>,
     <<4, W(0, 32)>>, <<4, W(0, 33)>>}

\* the list registers the hardware can report an EOI for: all of them once,
\* else those in flight with the maintenance flag
EoiSets(st) == SUBSET EoiReporting(st) \cup {LrRange}

\* set-enable and clear-enable stores and loads, the host's timer and
\* maintenance interrupts (the latter also with its status bit clear), a WFI
\* that arms the one-shot
VgicExits(st) ==
    {GicStore(GICD.ISENABLER0 + p[1], p[2]) : p \in EnablePatterns}
    \cup {GicStore(GICD.ICENABLER0 + p[1], p[2]) : p \in EnablePatterns}
    \cup {GicLoad(GICD.ISENABLER0), GicLoad(GICD.ISENABLER0 + 4)}
    \cup {HostIrq(VT_MAINTAINANCE_IRQ, 1, SetToBits(S)) : S \in EoiSets(st)}
    \cup {HostIrq(VT_MAINTAINANCE_IRQ, 2, SetToBits(S)) : S \in EoiSets(st)}
    \cup {HostIrq(VT_TIMER_IRQ, 0, 0)}
    \cup {Trap(WfiHsr(0), 0, Zero32, 0, Zero32)}

NextGic ==
    \/ VmStart
    \/ VcpuExit(VgicExits(state))
    \/ HandleExit
    \/ HandleTimeout
    \/ HandleTerminal(TermInputs)

\* list registers all free, or only registers 0 and 2
InitGic == InitWith({5, Pow2(NR_IRQ) - 1})

SpecGic == InitGic /\ [][NextGic]_vars

\* the block st describes a word store to the distributor at an offset of
\* lo..hi
GicStoreTo(st, lo, hi) ==
    /\ st.cpu_exception = ExcTRAP
    /\ EcGet(st.hsr) = Ec.DA
    /\ IssValid(st.hsr)
    /\ DaWrite(st.hsr) = 1
    /\ DaAccessSize(st.hsr) = AccessSize.WORD
    /\ st.hpfar * 256 = Devices.Gic.addr
    /\ InRange(DaOffset(st, "Gic"), lo, hi)

\* the word the guest stores
StoredWord(st) == GuestReg(st, st.cpsr, DaRegister(st.hsr))

\* bits from..to of P that belong to IRQs idx + i with a registered owner,
\* as a halfword
RECURSIVE OwnedBits(_, _, _, _)
OwnedBits(P, idx, from, to) ==
    IF from > to THEN 0
    ELSE (IF Bits(P, from, 1) = 1 /\ idx + from <= MAX_IRQ
             /\ irqs[idx + from].device # "none"
          THEN Pow2(from - (to - 15)) ELSE 0)
         + OwnedBits(P, idx, from + 1, to)

Owned(P, idx) == W(OwnedBits(P, idx, 16, 31), OwnedBits(P, idx, 0, 15))

\* C14: for every register index n and bit pattern P (also one with bits of
\* IRQs that have no registered owner), writing P to ISENABLER[n] and then
\* reading ISENABLER[n] returns P restricted to the IRQs 32n+i that have a
\* registered owner.
C14_IsenablerRoundTrip ==
    (DaHandled /\ GicStoreTo(state, GICD.ISENABLER0, GICD.ISENABLERL)) =>
        /\ ~out.dfail
        /\ \A junk \in {0, 1} :
              GicRead(Mc, DaOffset(state, "Gic"), junk).val
                  = Owned(StoredWord(state), (DaOffset(state, "Gic") - GICD.ISENABLER0) * 8)

\* the IRQ k is one the store of P to the enable register with first IRQ idx
\* selects
Selected(P, idx, k) == k >= idx /\ k < idx + 32 /\ Bits(P, k - idx, 1) = 1

\* the machine m a handler leaves agrees with what a store of P to
\* ICENABLER[idx / 32] is to do to the table and the block of the state
IcenablerEffect(m, P, idx) ==
    /\ ~m.thrown
    /\ \A k \in 0..MAX_IRQ :
          /\ m.irqs[k].distr_state =
                IF Selected(P, idx, k) THEN "DISABLED" ELSE irqs[k].distr_state
          /\ m.irqs[k].cpu_state = irqs[k].cpu_state
    /\ Selected(P, idx, VT_TIMER_IRQ) => ~m.st.timer_irq
    /\ ~Selected(P, idx, VT_TIMER_IRQ) => m.st.timer_irq = state.timer_irq

\* a store to ICENABLER[n], n within the IRQ table, waits for the exit
\* handler
IcenablerPending ==
    /\ exit_sig
    /\ active
    /\ GicStoreTo(state, GICD.ICENABLER0, GICD.ICENABLER0 + 4 * (MAX_IRQ \div 32 - 1))

\* C15: after a store of P to ICENABLER[n], n within the IRQ table, every
\* IRQ 32n+i with bit i of P set is DISABLED and the distr_state of every
\* other IRQ is unchanged; disabling the virtual-timer IRQ also clears
\* state.timer_irq.
C15_IcenablerClearsExactly ==
    IcenablerPending =>
        \A ins \in Inputs :
            IcenablerEffect(handle_vm(Mc, "exit", ins), StoredWord(state),
                            (DaOffset(state, "Gic") - GICD.ICENABLER0) * 8)

\* the store of a pattern that names several IRQs has disabled the timer's
\* IRQ and left the UART's enabled
C15_Witness ==
    /\ DaHandled
    /\ GicStoreTo(state, GICD.ICENABLER0, GICD.ICENABLER0)
    /\ ~out.dfail
    /\ StoredWord(state) = W(\H0800, 1)
    /\ irqs[VT_TIMER_IRQ].distr_state = "DISABLED"
    /\ irqs[PL011_0_IRQ].distr_state = "ENABLED"
    /\ irqs[VT_TIMER_IRQ].cpu_state = "PENDING"

\* inject_irq(irq) is called on the machine mc for an IRQ that has an owner,
\* is not PENDING, is ENABLED, is held by no list register in flight, and a
\* list register is free
InjectPre(mc, irq) ==
    /\ mc.irqs[irq].device # "none"
    /\ mc.irqs[irq].cpu_state # "PENDING"
    /\ mc.irqs[irq].distr_state = "ENABLED"
    /\ InFlightWith(mc.st, irq) = {}
    /\ FreeLrs(mc.st) # {}

\* the list-register value v is the one claimed for irq
ClaimedLr(v, irq, eoi) ==
    /\ LrVirtId(v) = irq
    /\ LrPhysId(v) = (IF eoi THEN Pow2(9) ELSE 0)
    /\ LrPrio(v) = 0
    /\ LrState(v) = 1

\* the machine m is mc after the injection: one list register that was free
\* holds the value, its elrsr0 bit and no other is cleared, the others are
\* as they were, the VCPU is active
InjectPost(mc, m, irq) ==
    /\ ~m.thrown
    /\ m.active
    /\ \E i \in FreeLrs(mc.st) :
          /\ ClaimedLr(m.st.gic_lr[i], irq, mc.irqs[irq].eoi)
          /\ m.st.gic_elrsr0 = ClearBit(mc.st.gic_elrsr0, i)
          /\ \A j \in LrRange \ {i} : m.st.gic_lr[j] = mc.st.gic_lr[j]

InjectionOk(mc, irq) == InjectPre(mc, irq) => InjectPost(mc, inject_irq(mc, irq), irq)

\* the host's timer interrupt waits for the exit handler
TimerIrqPending ==
    /\ exit_sig
    /\ active
    /\ state.cpu_exception = ExcIRQ
    /\ state.gic_irq = VT_TIMER_IRQ

\* C16: when inject_irq(irq) is called for an IRQ that has an owner, is not
\* PENDING, is distributor-ENABLED, is not held by a list register in flight,
\* and a list register is free, then exactly one list register that was free
\* holds (virtual id irq, physical id eoi ? 1<<9 : 0, priority 0, state
\* pending), exactly its bit of elrsr0 is cleared, the other list registers
\* are unchanged and the VCPU is marked active.  Checked for inject_irq on
\* every reachable machine, for an SGI, the timer's and the UART's IRQ, and
\* for the exit handler that takes the host's timer interrupt.
C16_InjectionResult ==
    /\ \A irq \in {0, VT_TIMER_IRQ, PL011_0_IRQ} : InjectionOk(Mc, irq)
    /\ (TimerIrqPending /\ InjectPre(Mc, VT_TIMER_IRQ)) =>
          \A ins \in Inputs : InjectPost(Mc, handle_vm(Mc, "exit", ins), VT_TIMER_IRQ)

\* the exit handler has injected the timer's interrupt while another list
\* register was in flight
C16_Witness ==
    /\ out.ev = "exit"
    /\ ~exit_sig
    /\ out.disp = "IRQ"
    /\ ~out.dfail
    /\ state.gic_irq = VT_TIMER_IRQ
    /\ irqs[VT_TIMER_IRQ].cpu_state = "PENDING"
    /\ Cardinality(InFlightWith(state, VT_TIMER_IRQ)) = 1
    /\ \E i \in LrRange : BitOf(state.gic_elrsr0, i) = 0
                          /\ LrVirtId(state.gic_lr[i]) = PL011_0_IRQ
    /\ active

\* the host's maintenance interrupt waits for the exit handler
MaintenancePending ==
    /\ exit_sig
    /\ active
    /\ state.cpu_exception = ExcIRQ
    /\ state.gic_irq = VT_MAINTAINANCE_IRQ

\* the machine m a handler leaves agrees with what the end of interrupt
\* reported for list register i of the block st is to do
EoiEffect(m, st, i) ==
    /\ m.st.gic_lr[i] = 0
    /\ BitOf(m.st.gic_elrsr0, i) = 1
    /\ m.irqs[LrVirtId(st.gic_lr[i])].cpu_state = "INACTIVE"
    /\ (LrVirtId(st.gic_lr[i]) = VT_TIMER_IRQ
        /\ irqs[VT_TIMER_IRQ].distr_state = "ENABLED") => m.st.timer_irq

\* the machine m a handler leaves agrees with what the maintenance
\* interrupt described by the block st is to do
MaintenanceEffect(m, st) ==
    IF BitOf(st.gic_misr, 0) = 1
    THEN /\ ~m.thrown
         /\ \A i \in LrRange :
               IF BitOf(st.gic_eisr, i) = 1
               THEN EoiEffect(m, st, i)
               ELSE /\ m.st.gic_lr[i] = st.gic_lr[i]
                    /\ BitOf(m.st.gic_elrsr0, i) = BitOf(st.gic_elrsr0, i)
         /\ m.st.gic_misr = 0
    ELSE /\ m.st = st
         /\ m.irqs = irqs
         /\ m.distr_enabled = distr_enabled

\* C17: when the exit cause is the maintenance IRQ and gic_misr bit 0 is
\* set, then for every bit i set in gic_eisr the handler zeroes gic_lr[i],
\* sets bit i of elrsr0, makes the IRQ whose virtual id was in gic_lr[i]
\* INACTIVE and sets state.timer_irq if that IRQ is the virtual timer's and
\* still distributor-enabled; list registers whose eisr bit is clear are
\* unchanged and gic_misr is 0 afterwards.  With gic_misr bit 0 clear
\* nothing changes.
C17_MaintenanceEoi ==
    MaintenancePending =>
        \A ins \in Inputs : MaintenanceEffect(handle_vm(Mc, "exit", ins), state)

\* the end of interrupt of the timer's IRQ has been handled while the UART's
\* IRQ stayed in flight in another list register
C17_Witness ==
    /\ out.ev = "exit"
    /\ ~exit_sig
    /\ out.disp = "IRQ"
    /\ ~out.dfail
    /\ state.gic_irq = VT_MAINTAINANCE_IRQ
    /\ state.gic_eisr \in {1, 2, 4, 8}
    /\ state.gic_misr = 0
    /\ state.timer_irq
    /\ irqs[VT_TIMER_IRQ].cpu_state = "INACTIVE"
    /\ irqs[VT_TIMER_IRQ].distr_state = "ENABLED"
    /\ InFlightWith(state, VT_TIMER_IRQ) = {}
    /\ InFlightWith(state, PL011_0_IRQ) # {}

(***************************************************************************)
(* The UART under guest accesses and terminal events                       *)
(***************************************************************************)
\* the most stores to and loads from UARTDR the guest issues, the most
\* read-avail signals of the terminal
MaxTx == 2

MaxRx == 2

MaxRxEvents == 2

\* byte and halfword stores of 'H' and 'i' to UARTDR, the registers holding
\* more than the low byte
DrStores ==
    {Da("Pl011", UART.DR, 1, AccessSize.BYTE, 3, W(0, 256 + 72)),
     Da("Pl011", UART.DR, 1, AccessSize.HALFWORD, 3, W(1, 512 + 105))}

DrLoads == {Da("Pl011", UART.DR, 0, AccessSize.HALFWORD, 3, Zero32)}

\* the accesses of a guest that has sent and received what g records: stores
\* to and loads from UARTDR, loads of the flag register, the store that
\* unmasks the receive interrupt, the store that enables the UART's IRQ
UartExits(g) ==
    (IF Len(g.tx) < MaxTx THEN DrStores ELSE {})
    \cup (IF Len(g.rx) < MaxRx THEN DrLoads ELSE {})
    \cup {Da("Pl011", UART.FR, 0, AccessSize.HALFWORD, 3, Zero32),
          Da("Pl011", UART.FR, 0, AccessSize.WORD, 3, Zero32),
          Da("Pl011", UART.IMSC, 1, AccessSize.HALFWORD, 3, W(0, 16)),
          GicStore(GICD.ISENABLER0 + 4, W(0, 32))}

\* what the terminal delivers with one read-avail signal: "OK", or "O"
UartInputs == {<<79, 75>>, <<79>>}

NextUart ==
    \/ VmStart
    \/ VcpuExit(UartExits(guest))
    \/ HandleExit
    \/ TerminalEvent(UartInputs, MaxRxEvents)

\* list registers all free
InitUart == InitWith({Pow2(NR_IRQ) - 1})

SpecUart == InitUart /\ [][NextUart]_vars

IsPrefix(a, b) == Len(a) <= Len(b) /\ a = SubSeq(b, 1, Len(a))

\* a store to UARTDR waits for its emulation
DrStorePending ==
    Fresh /\ UartAccess(state, 1, UART.DR, {AccessSize.BYTE, AccessSize.HALFWORD})

\* C18: for any sequence of guest stores to UARTDR (8-bit or 16-bit,
\* interleaved with other UART register accesses and RX events), the
\* terminal receives exactly the low byte of each stored value, one byte per
\* store, in the order of the stores: what the terminal has received is what
\* the guest has stored, up to the store that still waits for its emulation.
C18_UartTxOrder ==
    /\ IsPrefix(term_out, guest.tx)
    /\ DrStorePending \/ term_out = guest.tx

\* the bytes among the values the guest's loads from UARTDR returned (a load
\* from the empty buffer returns 0, the terminal delivers no 0)
Received(s) == SelectSeq(s, LAMBDA b : b # 0)

\* a load from the flag register waits for its emulation
FrLoadPending ==
    Fresh /\ UartAccess(state, 0, UART.FR, {AccessSize.HALFWORD, AccessSize.WORD})

\* the machine m a handler leaves has given the guest the flag register of a
\* UART whose receive buffer was buf
FrValue(m, buf) ==
    /\ ~m.dfail
    /\ GuestReg(m.st, state.cpsr, DaRegister(state.hsr))
          = W(0, IF buf # <<>> THEN 64 ELSE 16)
    /\ m.uart.rx_buf = buf

\* C19: the values the guest's loads from UARTDR return are the bytes the
\* terminal delivered, in order (a load from the empty buffer returns 0 and
\* consumes nothing): what the guest has read, followed by what the buffer
\* holds and by what the terminal still holds, is what the terminal
\* delivered.  A load from UARTFR returns 64 when a received byte has not
\* been read yet and 16 when none is buffered.
C19_UartRxFifo ==
    /\ Received(guest.rx) \o uart.rx_buf \o term_in = guest.sent
    /\ FrLoadPending =>
          \A ins \in Inputs : FrValue(handle_vm(Mc, "exit", ins), uart.rx_buf)

(***************************************************************************)
(* The boot of the guest                                                   *)
(***************************************************************************)
\* the sizes of the kernel ROM: a kernel of 4 MiB, the largest that ends
\* where the DTB begins, one of 64 MiB (all within the guest RAM)
BootKernels == {KernelSize, DTB_OFFSET - KERNEL_OFFSET, DTB_OFFSET}

NextBoot ==
    \/ VmStart
    \/ VcpuExit(FewCp15Exits \cup DaExits)
    \/ HandleExit

InitBoot == InitOf(AnyElrsr, BootKernels)

SpecBoot == InitBoot /\ [][NextBoot]_vars

\* bytes of an image of n bytes: the first, the middle, the last
Samples(n) == {0, n \div 2, n - 1}

\* the n bytes of the image rom are in the guest RAM mem from offset at on
ImageAt(mem, at, rom, n) ==
    \A k \in Samples(n) : RamByte(mem, at + k) = <<rom, k>>

\* C20: after Vm::start() the kernel image bytes are at guest RAM offset
\* 0x8000 and the DTB bytes at offset 64 MiB, pc is 0x80008000, r1 is 2272,
\* r2 is 0x84000000, cpsr is 0x93, every other general-purpose and banked
\* register is 0, and the CP15 reset values written at construction are
\* still in the state.
C20_BootContract ==
    out.ev = "start" =>
        /\ ImageAt(ram, 32768, "linux", roms.linux)
        /\ ImageAt(ram, 64 * 1024 * 1024, "dtb", roms.dtb)
        /\ state.r[15] = W(\H8000, \H8000)
        /\ state.r[1] = ToWord(2272)
        /\ state.r[2] = W(\H8400, 0)
        /\ state.cpsr = W(0, \H93)
        /\ \A i \in 0..14 \ {1, 2} : state.r[i] = Zero32
        /\ \A m \in 0..(ModeStateMAX - 1) :
              state.mode[m] = [spsr |-> Zero32, sp |-> Zero32, lr |-> Zero32]
        /\ \A n \in 1..NumCp15Regs : RegRead(state, n) = Cp15Regs[n].init_value

(***************************************************************************)
(* Failures of the trap decoder and of the injection                       *)
(***************************************************************************)
\* the failure the trap decoder is to report for the block st, "none" where
\* it is to report none
DecoderFailure(st) ==
    IF st.cpu_exception = ExcIRQ THEN "none"
    ELSE IF st.cpu_exception # ExcTRAP THEN "UnexpectedException"
    ELSE IF EcGet(st.hsr) = 18 THEN "UnknownHyperCall"
    ELSE IF EcGet(st.hsr) \in {3, 36, 1} THEN "none"
    ELSE "UnknownTrap"

\* the machine m a handler leaves has failed with tag and has left the PC,
\* the registers, the IRQ table, the list registers and the active flag of
\* the machine mc alone
FailedUnchanged(mc, m, tag) ==
    /\ m.thrown
    /\ m.err = tag
    /\ m.st = mc.st
    /\ m.irqs = mc.irqs
    /\ m.active = mc.active
    /\ ~m.ran

\* C21: an exit with cpu_exception TRAP and EC HVC (0x12) fails with
\* UnknownHyperCall, one with an EC other than HVC, CP15 (0x03), DA (0x24),
\* WFI (0x01) with UnknownTrap, one with a cpu_exception other than IRQ or
\* TRAP with UnexpectedException; in all three cases PC, registers, IRQ
\* table, list registers and the VCPU active flag are unchanged.  Checked
\* for each of the three signal handlers that run handle_vm.
C21_DecoderFailures ==
    (active /\ DecoderFailure(state) # "none") =>
        \A ev \in {"exit", "timeout", "terminal"} : \A ins \in Inputs :
            FailedUnchanged(Mc, handle_vm(Mc, ev, ins), DecoderFailure(state))

\* each of the three failures has been reported by the exit handler
C21_Witness ==
    /\ out.ev = "exit"
    /\ ~exit_sig
    /\ out.thrown
    /\ out.err = "UnknownHyperCall"
    /\ out.disp = "HVC"
    /\ state.r[15] = GuestIp
    /\ active
    /\ ~running

\* the IRQs inject_irq is applied to: an SGI, the timer's, one without an
\* owner, the UART's
InjectedIrqs == {0, VT_TIMER_IRQ, 32, PL011_0_IRQ}

\* the machine m has the list registers, elrsr0, the IRQ table, timer_irq
\* and the active flag of the machine mc
VgicUnchanged(mc, m) ==
    /\ m.st.gic_lr = mc.st.gic_lr
    /\ m.st.gic_elrsr0 = mc.st.gic_elrsr0
    /\ m.irqs = mc.irqs
    /\ m.st.timer_irq = mc.st.timer_irq
    /\ m.active = mc.active

\* the failure inject_irq(irq) is to report on the machine mc, "none" where
\* it is to report none for the owner or the cpu_state
InjectFailure(mc, irq) ==
    IF mc.irqs[irq].device = "none" THEN "UnknownInjection"
    ELSE IF mc.irqs[irq].cpu_state = "PENDING" THEN "DoubleInject"
    ELSE "none"

InjectFails(mc, m, irq) ==
    /\ m.thrown
    /\ m.err = InjectFailure(mc, irq)
    /\ VgicUnchanged(mc, m)

\* the one-shot is to expire on a halted VCPU
TimeoutPending == booted /\ timer.armed /\ ~active

\* C22: inject_irq(irq) fails with UnknownInjection when the IRQ has no
\* owner and with DoubleInject when its cpu_state is PENDING already; in
\* both cases no list register, no elrsr0 bit, no entry of the IRQ table,
\* state.timer_irq and the VCPU active flag are unchanged.  Checked for
\* inject_irq on every reachable machine and for the timer's handler on a
\* halted VCPU.
C22_InjectionPreconditions ==
    /\ \A irq \in InjectedIrqs :
          InjectFailure(Mc, irq) # "none" => InjectFails(Mc, inject_irq(Mc, irq), irq)
    /\ (TimeoutPending /\ InjectFailure(Mc, VT_TIMER_IRQ) # "none") =>
          \A ins \in Inputs :
              InjectFails(Mc, handle_vm(Mc, "timeout", ins), VT_TIMER_IRQ)

\* the timer's handler has found its interrupt PENDING
C22_Witness ==
    /\ out.ev = "timeout"
    /\ out.thrown
    /\ out.err = "DoubleInject"
    /\ irqs[VT_TIMER_IRQ].cpu_state = "PENDING"
    /\ ~active
    /\ irqs[32].device = "none"

\* inject_irq(irq) on the machine mc gets past the owner and the cpu_state
\* test and finds the IRQ DISABLED
InjectDisabled(mc, irq) ==
    /\ InjectFailure(mc, irq) = "none"
    /\ mc.irqs[irq].distr_state = "DISABLED"

\* the machine m is mc after an injection that was dropped
Dropped(mc, m) ==
    /\ ~m.thrown
    /\ m.st.gic_lr = mc.st.gic_lr
    /\ m.st.gic_elrsr0 = mc.st.gic_elrsr0
    /\ m.st.timer_irq = mc.st.timer_irq
    /\ m.active = mc.active
    /\ ~mc.active => ~m.ran

\* C23: inject_irq(irq) for an IRQ whose distr_state is DISABLED is dropped:
\* no list register and no elrsr0 bit changes, state.timer_irq is unchanged
\* and the VCPU is not marked active (a VCPU halted in WFI stays halted).
\* Checked for inject_irq on every reachable machine and for the timer's
\* handler on a halted VCPU.
C23_DistributorGates ==
    /\ \A irq \in InjectedIrqs :
          InjectDisabled(Mc, irq) => Dropped(Mc, inject_irq(Mc, irq))
    /\ (TimeoutPending /\ InjectDisabled(Mc, VT_TIMER_IRQ)) =>
          \A ins \in Inputs : Dropped(Mc, handle_vm(Mc, "timeout", ins))

\* the one-shot has expired with the timer's IRQ DISABLED and the VCPU
\* halted in WFI
C23_Witness ==
    /\ out.ev = "timeout"
    /\ ~out.thrown
    /\ out.warned
    /\ ~out.ran
    /\ irqs[VT_TIMER_IRQ].distr_state = "DISABLED"
    /\ ~active
    /\ ~running
    /\ InFlightWith(state, VT_TIMER_IRQ) = {}

(***************************************************************************)
(* Repeated injections of the UART's interrupt                             *)
(***************************************************************************)
\* the stores that enable SGI 0 and the UART's IRQ, the store that unmasks
\* the UART's transmit interrupt (which raises it), a WFI
InjectExits ==
    {GicStore(GICD.ISENABLER0, W(0, 1)),
     GicStore(GICD.ISENABLER0 + 4, W(0, 32)),
     Da("Pl011", UART.IMSC, 1, AccessSize.HALFWORD, 3, W(0, 32)),
     Trap(WfiHsr(0), 0, Zero32, 0, Zero32)}

NextInject ==
    \/ VmStart
    \/ VcpuExit(InjectExits)
    \/ HandleExit
    \/ HandleTimeout
    \/ HandleTerminal(TermInputs)

InitInject == InitWith({5, Pow2(NR_IRQ) - 1})

SpecInject == InitInject /\ [][NextInject]_vars

\* inject_irq(irq) on the machine mc gets to the list registers and finds
\* one in flight that holds irq
InjectDuplicate(mc, irq) ==
    /\ InjectFailure(mc, irq) = "none"
    /\ mc.irqs[irq].distr_state = "ENABLED"
    /\ InFlightWith(mc.st, irq) # {}

\* the machine m is mc after an injection that found its duplicate
Deduplicated(mc, m) ==
    /\ ~m.thrown
    /\ m.err = "none"
    /\ m.st.gic_lr = mc.st.gic_lr
    /\ m.st.gic_elrsr0 = mc.st.gic_elrsr0
    /\ m.active

\* inject_irq(irq) on the machine mc finds no list register in flight with
\* irq, and a free one that holds irq
InjectOverFree(mc, irq) ==
    /\ InjectFailure(mc, irq) = "none"
    /\ mc.irqs[irq].distr_state = "ENABLED"
    /\ InFlightWith(mc.st, irq) = {}
    /\ \E i \in FreeLrs(mc.st) : LrVirtId(mc.st.gic_lr[i]) = irq

\* the terminal's bytes b arrive while the VCPU is halted
read_avail(mc, b) == [mc EXCEPT !.term_in = @ \o b]

InjectOnFull(mc, irq) ==
    /\ InjectFailure(mc, irq) = "none"
    /\ mc.irqs[irq].distr_state = "ENABLED"
    /\ InFlightWith(mc.st, irq) = {}
    /\ FreeLrs(mc.st) = {}

\* the machine m is mc after an injection that found no list register
Exhausted(mc, m) ==
    /\ m.thrown
    /\ m.err = "ListRegistersFull"
    /\ m.st.gic_lr = mc.st.gic_lr
    /\ m.st.gic_elrsr0 = mc.st.gic_elrsr0
    /\ m.active = mc.active
    /\ ~mc.active => ~m.ran

\* C25: when all list registers are in flight holding other virtual ids,
\* inject_irq of a further enabled, non-pending, registered IRQ fails with
\* ListRegistersFull, leaves every list register and elrsr0 unchanged and
\* does not mark the VCPU active.  Checked for inject_irq on every reachable
\* machine and for the timer's handler on a halted VCPU.
C25_ListRegistersFull ==
    /\ \A irq \in InjectedIrqs :
          InjectOnFull(Mc, irq) => Exhausted(Mc, inject_irq(Mc, irq))
    /\ (TimeoutPending /\ InjectOnFull(Mc, VT_TIMER_IRQ)) =>
          \A ins \in Inputs : Exhausted(Mc, handle_vm(Mc, "timeout", ins))

\* the one-shot has expired on a halted VCPU with the timer's IRQ enabled
\* and every list register in flight
C25_Witness ==
    /\ out.ev = "timeout"
    /\ out.thrown
    /\ out.err = "ListRegistersFull"
    /\ irqs[VT_TIMER_IRQ].distr_state = "ENABLED"
    /\ FreeLrs(state) = {}
    /\ InFlightWith(state, VT_TIMER_IRQ) = {}
    /\ ~active
    /\ ~running

\* the IRQs enable_irq is applied to: an SGI, the timer's, one without an
\* owner, the UART's, the last of the table, two beyond the table
EnabledIrqs == {0, VT_TIMER_IRQ, 32, PL011_0_IRQ, MAX_IRQ, MAX_IRQ + 1, 1023}

\* the calls of irq_enabled(irq) among the calls told
ToldEnabled(told, irq) ==
    Cardinality({n \in 1..Len(told) : told[n] = <<"irq_enabled", irq>>})

\* the machine m is mc after _enable_irq(irq)
EnableEffect(mc, m, irq) ==
    IF irq > MAX_IRQ \/ mc.irqs[irq].device = "none"
    THEN /\ m.thrown
         /\ m.irqs = mc.irqs
         /\ m.told = mc.told
         /\ m.st = mc.st
    ELSE IF mc.irqs[irq].distr_state = "ENABLED"
    THEN m = mc
    ELSE /\ ~m.thrown
         /\ m.irqs = [mc.irqs EXCEPT ![irq].distr_state = "ENABLED"]
         /\ m.told = Append(mc.told, <<"irq_enabled", irq>>)
         /\ m.st = [mc.st EXCEPT !.timer_irq = IF irq = VT_TIMER_IRQ THEN TRUE ELSE @]

\* a store to ISENABLER[0] or ISENABLER[1] waits for the exit handler
IsenablerPending ==
    /\ exit_sig
    /\ active
    /\ GicStoreTo(state, GICD.ISENABLER0, GICD.ISENABLER0 + 4)

\* the machine m the exit handler leaves has told the owner of every IRQ it
\* has enabled once, and no other owner
ToldOnce(m) ==
    \A k \in 0..MAX_IRQ :
        ToldEnabled(m.told, k) =
            IF irqs[k].distr_state = "DISABLED" /\ m.irqs[k].distr_state = "ENABLED"
            THEN 1 ELSE 0

\* C26: enabling an IRQ (by a bit of ISENABLER) fails if irq > MAX_IRQ or
\* the IRQ has no owner, is a no-op (no notification of the owner, timer_irq
\* unchanged) if it is ENABLED already, and otherwise marks it ENABLED, calls
\* the owner's irq_enabled(irq) exactly once and sets state.timer_irq if irq
\* is the virtual timer's; an IRQ without an owner is never ENABLED.
C26_EnableIrq ==
    /\ \A irq \in EnabledIrqs : EnableEffect(Mc, enable_irq(Mc, irq), irq)
    /\ IsenablerPending => \A ins \in Inputs : ToldOnce(handle_vm(Mc, "exit", ins))
    /\ \A k \in 0..MAX_IRQ : irqs[k].distr_state = "ENABLED" => irqs[k].device # "none"

\* the store of a pattern that names the timer's IRQ and SGI 0 has been
\* handled a second time, after the timer's IRQ had been disabled
C26_Witness ==
    /\ DaHandled
    /\ GicStoreTo(state, GICD.ISENABLER0, GICD.ISENABLER0)
    /\ ~out.dfail
    /\ StoredWord(state) = W(\H0800, 1)
    /\ irqs[VT_TIMER_IRQ].distr_state = "ENABLED"
    /\ irqs[0].distr_state = "ENABLED"
    /\ irqs[PL011_0_IRQ].distr_state = "ENABLED"
    /\ state.timer_irq
    /\ irqs[32].distr_state = "DISABLED"

(***************************************************************************)
(* Data aborts the running guest can take, emulated by the exit handler     *)
(***************************************************************************)
\* what the handlers are not told by the block, for a guest in SVC mode
PlainInputs == {[oob |-> "ip", junk |-> j, ms |-> 0] : j \in {0, 1}}

\* the running guest leaves with the exit e and Signal_handler<Vmm>::handle
\* runs handle_vm(Vmm::_handle) on what the host saved
Emulated(e, ins) ==
    handle_vm([Mc EXCEPT !.st = HostSave(state, e), !.running = FALSE], "exit", ins)

\* offsets of IPRIORITYR: the first, the second, the last
PrioOffsets == {GICD.IPRIORITYR0, GICD.IPRIORITYR0 + 4, GICD.IPRIORITYRL}

\* the machine m has emulated a store the distributor accepts and ignores
StoreIgnored(m) ==
    /\ ~m.thrown
    /\ ~m.dfail
    /\ m.irqs = irqs
    /\ m.distr_enabled = distr_enabled
    /\ m.st.gic_lr = state.gic_lr
    /\ m.st.gic_elrsr0 = state.gic_elrsr0
    /\ m.st.timer_irq = state.timer_irq

\* the machine m has emulated a load into r3 that returned v
LoadReturned(m, v) ==
    /\ ~m.thrown
    /\ ~m.dfail
    /\ GuestReg(m.st, CpsrSVC, 3) = v

\* C27: every guest word store to IPRIORITYR (offsets 0x400..0x7F8) is
\* accepted and changes no distributor state, and every guest word load
\* from it succeeds and returns 0.
C27_Ipriorityr ==
    (booted /\ running) =>
        \A off \in PrioOffsets : \A ins \in PlainInputs :
            /\ \A v \in {Zero32, W(\Ha0a0, \Ha0a0)} :
                  StoreIgnored(Emulated(GicStore(off, v), ins))
            /\ LoadReturned(Emulated(GicLoad(off), ins), Zero32)

(***************************************************************************)
(* The MMIO access decoder                                                 *)
(***************************************************************************)
\* the faulting guest-physical address: (hpfar << 8) | (hdfar & 0xFFF)
FaultingAddress(hpfar, hdfar) == hpfar * 256 + (Lo(hdfar) % 4096)

\* C28: for every data abort routed to a device, the register offset passed
\* to the device's read or write is the faulting guest-physical address,
\* (hpfar << 8) | (hdfar & 0xFFF), minus the device base: for every device,
\* every page of its range and every value of the upper bits of hdfar.
C28_MmioOffset ==
    probe.op = "offset" =>
        /\ probe.dev # ""
        /\ probe.off = FaultingAddress(probe.hpfar, probe.hdfar) - Devices[probe.dev].addr

(***************************************************************************)
(* Syndrome validation and the dispatch on the access width                *)
(***************************************************************************)
\* the accesses of a guest that probes the devices: a halfword and a word
\* store to the distributor, a store with a syndrome that is not valid, a
\* sign-extending load, a word store to and a byte load from the UART, a
\* halfword load of its flag register, a halfword load of a system register
WidthExits ==
    {Da("Gic", GICD.CTLR, 1, AccessSize.HALFWORD, 3, W(0, 1)),
     Da("Gic", GICD.CTLR, 1, AccessSize.WORD, 3, W(0, 1)),
     Trap(DaHsr(1, 3, AccessSize.WORD, 0, 0), Devices.Gic.addr \div 256, Zero32, 3, Zero32),
     Trap(DaHsr(0, 3, AccessSize.HALFWORD, 1, 1), Devices.Pl011.addr \div 256,
          ToWord(UART.FR), 3, Zero32),
     Da("Pl011", UART.IMSC, 1, AccessSize.WORD, 3, W(0, 16)),
     Da("Pl011", UART.IMSC, 1, AccessSize.HALFWORD, 3, W(0, 16)),
     Da("Pl011", UART.DR, 0, AccessSize.BYTE, 3, Zero32),
     Da("Pl011", UART.FR, 0, AccessSize.HALFWORD, 3, Zero32),
     Da("Sys", SYS.PROCID0, 0, AccessSize.HALFWORD, 3, Zero32)}

NextWidth ==
    \/ VmStart
    \/ VcpuExit(WidthExits)
    \/ HandleExit
    \/ HandleTerminal(TermInputs)

InitWidth == InitWith({5, Pow2(NR_IRQ) - 1})

SpecWidth == InitWidth /\ [][NextWidth]_vars

\* the hooks of Device by write bit and access size
Hooks == <<<<"read8", "read16", "read32">>, <<"write8", "write16", "write32">>>>

\* the hooks the device classes override
Overrides ==
    [Gic   |-> {"read32", "write32"},
     Sys   |-> {"read32", "write32"},
     Pl011 |-> {"read16", "read32", "write8", "write16"}]

\* the calls of read and write hooks among the calls told
HooksTold(told) ==
    SelectSeq(told, LAMBDA c : c[1] \notin {"irq_enabled", "irq_disabled"})

\* syndromes by (Valid, SignExtend): well-formed, not valid, sign-extending,
\* both
Syndromes == {<<1, 0>>, <<0, 0>>, <<1, 1>>, <<0, 1>>}

\* offsets of the accesses: the first register, the UART's flag register
WidthOffsets == {0, UART.FR}

\* a data abort of the guest on offset off of dev with the syndrome bits v
\* (Valid, SignExtend), through r3
WidthAbort(dev, off, wr, sz, v) ==
    Trap(DaHsr(wr, 3, sz, v[1], v[2]), Devices[dev].addr \div 256, ToWord(off), 3,
         W(0, 16))

\* the machine m a handler leaves has failed with tag and has left the
\* devices and the guest's registers as the exit e found them
DeviceUntouched(m, e, tag) ==
    /\ m.thrown
    /\ m.err = tag
    /\ m.st = HostSave(state, e)
    /\ m.irqs = irqs
    /\ m.distr_enabled = distr_enabled
    /\ m.uart = uart
    /\ m.term_out = term_out
    /\ m.term_in = term_in
    /\ m.spi_data = spi_data
    /\ m.spi_stat = spi_stat

\* what the exit handler does with a data abort on dev of the width sz
WidthDispatch(m, e, dev, off, wr, sz, v) ==
    IF v # <<1, 0>>
    THEN /\ DeviceUntouched(m, e, "MalformedHSR")
         /\ HooksTold(m.told) = <<>>
    ELSE sz \in 0..2 =>
         /\ HooksTold(m.told) = <<<<Hooks[wr + 1][sz + 1], off>>>>
         /\ Hooks[wr + 1][sz + 1] \notin Overrides[dev] =>
               DeviceUntouched(m, e, "UnsupportedAccessWidth")

\* C29: a data abort whose syndrome has Valid = 0 or SignExtend = 1 fails
\* with MalformedHSR before any device hook runs; otherwise exactly one hook
\* is called, the one selected by the write bit and the access size (byte,
\* halfword, word), and a device that does not override that hook fails
\* with UnsupportedAccessWidth with the devices and the guest's registers
\* unchanged.  Checked for the GIC, the system registers and the UART, at
\* every state the guest runs in.
C29_WidthDispatch ==
    (booted /\ running) =>
        \A dev \in {"Gic", "Sys", "Pl011"} : \A off \in WidthOffsets :
        \A wr \in 0..1 : \A sz \in 0..3 : \A v \in Syndromes :
        \A ins \in PlainInputs :
            WidthDispatch(Emulated(WidthAbort(dev, off, wr, sz, v), ins),
                          WidthAbort(dev, off, wr, sz, v), dev, off, wr, sz, v)

\* the exit handler has refused a halfword store to the distributor
C29_Witness ==
    /\ out.ev = "exit"
    /\ ~exit_sig
    /\ out.thrown
    /\ out.err = "UnsupportedAccessWidth"
    /\ out.disp = "DA"
    /\ DaAccessSize(state.hsr) = AccessSize.HALFWORD
    /\ DaWrite(state.hsr) = 1
    /\ device_at(state.hpfar * 256) = "Gic"
    /\ state.r[15] = GuestIp

(***************************************************************************)
(* The arming of the host's one-shot timer                                 *)
(***************************************************************************)
\* the calls of trigger_once among the calls told
Triggers(told) == SelectSeq(told, LAMBDA c : c[1] = "trigger_once")

\* values of timer_ctrl: enable, mask and status bits in every combination
TimerCtrls == 0..7

\* values of timer_val: zero, less than a microsecond, a millisecond, the
\* largest
TimerVals == {Zero32, W(0, 23), W(0, 24000), W(\Hffff, \Hffff)}

\* the machine mc with the timer registers c and v
WithTimer(mc, c, v) == [mc EXCEPT !.st.timer_ctrl = c, !.st.timer_val = v]

\* q is the word v divided by 24, rounded down: v - 24 * q is in 0..23
\* (24 * q computed in halves)
Times24Hi(q) == 24 * (q \div Half) + (24 * (q % Half)) \div Half

Times24Lo(q) == (24 * (q % Half)) % Half

IsQuotient24(v, q) ==
    /\ (Hi(v) - Times24Hi(q)) \in 0..1
    /\ ((Hi(v) - Times24Hi(q)) * Half + Lo(v) - Times24Lo(q)) \in 0..23

\* schedule_timeout() has left m: armed for timer_val / 24 microseconds, or
\* not touched
Armed(m, v) ==
    /\ m.timer.armed
    /\ IsQuotient24(v, m.timer.us)
    /\ Triggers(m.told) = <<<<"trigger_once", m.timer.us>>>>

NotArmed(mc, m) ==
    /\ m.timer = mc.timer
    /\ Triggers(m.told) = <<>>

\* an exit no handler has dispatched yet is a WFI
WfiPending ==
    /\ Fresh
    /\ active
    /\ state.cpu_exception = ExcTRAP
    /\ EcGet(state.hsr) = Ec.WFI
    /\ Bits(state.hsr, 0, 1) = 0

\* the machine m a handler leaves has requested the timeout once, for
\* timer_val / 24 microseconds, if the handler took a WFI no handler had
\* taken before with the timer not both enabled and masked, and has not
\* requested it otherwise
ArmedOnWfi(m) ==
    IF WfiPending /\ CtrlMask(state.timer_ctrl) # 5
    THEN Triggers(m.told) = <<<<"trigger_once", Div24(state.timer_val)>>>>
    ELSE Triggers(m.told) = <<>>

\* the runs of the three signal handlers that can start in this state
ExitRuns == IF exit_sig THEN {handle_vm(Mc, "exit", ins) : ins \in Inputs} ELSE {}

TimeoutRuns ==
    IF timer.armed
    THEN {handle_vm([Mc EXCEPT !.timer.armed = FALSE], "timeout", ins) : ins \in Inputs}
    ELSE {}

TerminalRuns ==
    {handle_vm([Mc EXCEPT !.term_in = @ \o <<65>>], "terminal", ins) : ins \in Inputs}

\* C30: schedule_timeout() arms the host one-shot for timer_val / 24
\* microseconds if and only if (timer_ctrl & 0b101) # 0b101, and the host
\* one-shot is armed only on WFI entry, never by the timer-fire handler, an
\* injection or an end of interrupt, so that at most one timeout is
\* requested per WFI: a run of a signal handler requests the timeout only
\* for a WFI exit that no handler has taken before, and then once.
C30_TimerArming ==
    /\ \A c \in TimerCtrls : \A v \in TimerVals :
          IF c % 2 = 1 /\ (c \div 4) % 2 = 1
          THEN NotArmed(WithTimer(Mc, c, v), schedule_timeout(WithTimer(Mc, c, v)))
          ELSE Armed(schedule_timeout(WithTimer(Mc, c, v)), v)
    /\ booted =>
          \A m \in ExitRuns \cup TimeoutRuns \cup TerminalRuns : ArmedOnWfi(m)

(***************************************************************************)
(* The expiry of the host's one-shot timer                                 *)
(***************************************************************************)
\* the failure inject_irq(irq) reports on the machine mc, "none" when it
\* reports none
InjectError(mc, irq) ==
    IF mc.irqs[irq].device = "none" THEN "UnknownInjection"
    ELSE IF mc.irqs[irq].cpu_state = "PENDING" THEN "DoubleInject"
    ELSE IF /\ mc.irqs[irq].distr_state = "ENABLED"
            /\ InFlightWith(mc.st, irq) = {}
            /\ FreeLrs(mc.st) = {}
         THEN "ListRegistersFull"
    ELSE "none"

\* the machine d the dispatch of handle_vm leaves, for the timer's handler
TimerDispatched(ins) ==
    Dispatched(exit_step([Mc EXCEPT !.timer.armed = FALSE], ins))

\* the machine m is what the timer's handler makes of the machine d the
\* dispatch left: the timer registers are reloaded; a failed injection is
\* reported and the VCPU is not resumed; an injection that is not dropped
\* leaves the IRQ in a list register in flight and the VCPU running
TimerFired(d, m) ==
    /\ m.st.timer_ctrl = 5
    /\ m.st.timer_val = W(\Hffff, \Hffff)
    /\ IF InjectError(d, VT_TIMER_IRQ) # "none"
       THEN /\ m.thrown
            /\ m.err = InjectError(d, VT_TIMER_IRQ)
            /\ ~m.ran
            /\ m.running = d.running
            /\ m.st.gic_lr = d.st.gic_lr
            /\ m.st.gic_elrsr0 = d.st.gic_elrsr0
       ELSE /\ ~m.thrown
            /\ m.irqs[VT_TIMER_IRQ].cpu_state = "PENDING"
            /\ IF d.irqs[VT_TIMER_IRQ].distr_state = "DISABLED"
               THEN m.st.gic_lr = d.st.gic_lr /\ m.active = d.active
               ELSE InFlightWith(m.st, VT_TIMER_IRQ) # {} /\ m.active /\ m.ran

StoredMasks == {0, 16, 32, 48, 15, 47}

\* a halfword store of M to UARTIMSC through r3
ImscStore(M) == Da("Pl011", UART.IMSC, 1, AccessSize.HALFWORD, 3, W(0, M))

\* bit b of the mask goes from clear in u.imsc to set in M
Unmasked(u, M, b) == BitOf(M, b) = 1 /\ BitOf(u.imsc, b) = 0

\* the store of M raises the TX or the RX interrupt of the UART u
Raises(u, M) == Unmasked(u, M, 5) \/ (Unmasked(u, M, 4) /\ u.rx_buf # <<>>)

\* the raw interrupt status the store of M leaves
RisAfter(u, M) ==
    IF Unmasked(u, M, 4) /\ u.rx_buf # <<>>
    THEN SetBit(IF Unmasked(u, M, 5) THEN SetBit(u.ris, 5) ELSE u.ris, 4)
    ELSE IF Unmasked(u, M, 5) THEN SetBit(u.ris, 5) ELSE u.ris

\* a halfword load of UARTMIS on the machine m returns RIS & IMSC, bit by bit
MisIsMasked(m) ==
    \A b \in 0..15 :
        BitOf(UartRead16(m, UART.MIS).val, b)
            = BitOf(m.uart.ris, b) * BitOf(m.uart.imsc, b)

\* the machine m has emulated the store of M: the UART's IRQ is injected (in
\* a list register in flight and the VCPU active, or dropped with a warning
\* when the distributor has it disabled) if the store raises an interrupt,
\* nothing is injected if it raises none
MaskChanged(m, M) ==
    /\ ~m.thrown
    /\ m.uart.imsc = M
    /\ m.uart.ris = RisAfter(uart, M)
    /\ MisIsMasked(m)
    /\ IF Raises(uart, M)
       THEN IF irqs[PL011_0_IRQ].distr_state = "ENABLED"
            THEN InFlightWith(m.st, PL011_0_IRQ) # {} /\ m.active
            ELSE m.warned /\ m.st.gic_lr = state.gic_lr
       ELSE /\ m.st.gic_lr = state.gic_lr
            /\ m.st.gic_elrsr0 = state.gic_elrsr0
            /\ m.irqs = irqs
            /\ ~m.warned

\* C32: on a write of M to UARTIMSC the UART's IRQ is injected and RIS bit 5
\* set whenever bit 5 is set in M and was clear in IMSC, the IRQ is injected
\* and RIS bit 4 set only if bit 4 is set in M, was clear in IMSC and the RX
\* buffer is not empty; no injection happens for other bits; afterwards
\* IMSC = M and a read of UARTMIS returns RIS & IMSC.
C32_MaskChange ==
    (booted /\ running) =>
        \A M \in StoredMasks : \A ins \in PlainInputs :
            MaskChanged(Emulated(ImscStore(M), ins), M)

(***************************************************************************)
(* Bytes the terminal delivers                                             *)
(***************************************************************************)
\* what the terminal holds when its signal is handled: nothing more, or "A"
\* more
Arrivals == {<<>>, <<65>>}

\* the machine the dispatch of handle_vm leaves, for the terminal's handler
\* and a terminal that has b more
TerminalDispatched(b, ins) ==
    Dispatched(exit_step([Mc EXCEPT !.term_in = @ \o b], ins))

\* the machine m is what the terminal's handler makes of the machine d the
\* dispatch left: every byte the terminal held is in the ring buffer, behind
\* the bytes buffered before, the UART's IRQ is injected (in a list register
\* in flight and the VCPU active, or dropped with a warning) and RIS bit 4
\* is set; without a byte nothing is injected and nothing changed
RxDelivered(d, m) ==
    IF d.term_in = <<>>
    THEN /\ ~m.thrown
         /\ m.uart = d.uart
         /\ m.irqs = d.irqs
         /\ m.st = d.st
         /\ m.active = d.active
         /\ m.warned = d.warned
    ELSE /\ ~m.thrown
         /\ m.uart.rx_buf = d.uart.rx_buf \o d.term_in
         /\ m.term_in = <<>>
         /\ BitOf(m.uart.ris, 4) = 1
         /\ IF d.irqs[PL011_0_IRQ].distr_state = "ENABLED"
            THEN InFlightWith(m.st, PL011_0_IRQ) # {} /\ m.active
            ELSE m.warned /\ m.st.gic_lr = d.st.gic_lr

\* a store to UARTICR is dispatched by the handlers that start in this state
IcrStorePending ==
    active /\ UartAccess(state, 1, UART.ICR, {AccessSize.HALFWORD})

\* the machine m a handler leaves has RIS bit 4 set if it was set before
RisKept(m) == BitOf(uart.ris, 4) = 1 => BitOf(m.uart.ris, 4) = 1

\* C33: on a "bytes available" event with at least one byte available the
\* handler moves all available terminal bytes into the ring buffer in
\* order, then injects the UART's IRQ and sets RIS bit 4, which stays set
\* until a guest write to UARTICR clears it; with no bytes available it
\* injects nothing and changes nothing.  Checked for every run of the
\* terminal's signal handler whose exit dispatch, if any, lets the handler
\* run, and RIS bit 4 for every run of the three signal handlers.
C33_TerminalRx ==
    booted =>
        /\ \A b \in Arrivals : \A ins \in Inputs :
              ~TerminalDispatched(b, ins).thrown =>
                  RxDelivered(TerminalDispatched(b, ins),
                              handle_vm([Mc EXCEPT !.term_in = @ \o b], "terminal", ins))
        /\ ~IcrStorePending =>
              \A m \in ExitRuns \cup TimeoutRuns \cup TerminalRuns : RisKept(m)

(***************************************************************************)
(* A terminal that delivers more than the ring buffer holds                *)
(***************************************************************************)
\* one byte more than the ring buffer holds, the last one told apart
Flood == [i \in 1..(RX_BUF_SIZE + 1) |-> IF i > RX_BUF_SIZE THEN 66 ELSE 65]

\* what the terminal delivers with one read-avail signal: the flood, or "O"
FloodInputs == {Flood, <<79>>}

NextFlood ==
    \/ VmStart
    \/ VcpuExit(UartExits(guest))
    \/ HandleExit
    \/ HandleTerminal(FloodInputs)

\* list registers all free
InitFlood == InitWith({Pow2(NR_IRQ) - 1})

SpecFlood == InitFlood /\ [][NextFlood]_vars

\* the machine m is what the terminal's handler makes of the machine d the
\* dispatch left: the handler has not failed, the bytes buffered before are
\* still at the head of the buffer, and the buffer followed by what stays
\* with the terminal is what both held before
NothingLost(d, m) ==
    /\ ~m.thrown
    /\ Len(m.uart.rx_buf) <= RX_BUF_SIZE
    /\ IsPrefix(d.uart.rx_buf, m.uart.rx_buf)
    /\ m.uart.rx_buf \o m.term_in = d.uart.rx_buf \o d.term_in

\* C34: when the 1024-byte RX ring buffer is full at a terminal event, the
\* handler does not fail and loses no byte: the bytes that do not fit stay
\* with the terminal until the guest drains the buffer, and the bytes
\* already buffered are still read from UARTDR in order.  Checked for every
\* run of the terminal's signal handler on a terminal that holds one byte
\* more than the buffer does.
C34_RxOverflow ==
    booted =>
        \A ins \in Inputs :
            ~TerminalDispatched(Flood, ins).thrown =>
                NothingLost(TerminalDispatched(Flood, ins),
                            handle_vm([Mc EXCEPT !.term_in = @ \o Flood], "terminal", ins))

(***************************************************************************)
(* One dispatch per exit                                                   *)
(***************************************************************************)
\* the exit the block describes has been dispatched by a handler, and the
\* VCPU has not left the guest since
AlreadyDispatched == booted /\ ~exit_sig /\ out.disp # "none"

\* the machine m a handler leaves has dispatched nothing: no exit handled,
\* the PC where it was, no list register written
NotDispatched(m) ==
    /\ m.disp = "none"
    /\ Ip(m.st) = Ip(state)
    /\ m.st.gic_lr = state.gic_lr

\* C35: each VCPU exit is dispatched at most once: when a host-timer or
\* terminal event is handled while the VCPU is active, handle_vm does not
\* dispatch again an exit that an earlier handle_vm invocation already
\* handled or failed on, so that for one CP15 or data-abort exit the PC
\* advances by 4 at most once and for one host IRQ exit inject_irq is
\* called at most once.
C35_DispatchOnce ==
    (AlreadyDispatched /\ out.disp \in {"CP15", "DA", "IRQ"}) =>
        \A ins \in Inputs :
            /\ timer.armed =>
                  NotDispatched(exit_step([Mc EXCEPT !.timer.armed = FALSE], ins))
            /\ NotDispatched(exit_step([Mc EXCEPT !.term_in = @ \o <<65>>], ins))

(***************************************************************************)
(* Delivery after a dropped or failed injection                            *)
(***************************************************************************)
\* the virtual timer's IRQ is enabled, held by no list register in flight,
\* and a list register is free
Deliverable(mc) ==
    /\ mc.irqs[VT_TIMER_IRQ].distr_state = "ENABLED"
    /\ InFlightWith(mc.st, VT_TIMER_IRQ) = {}
    /\ FreeLrs(mc.st) # {}

\* the injection that left m has placed the IRQ in a list register
Placed(m) == ~m.thrown /\ InFlightWith(m.st, VT_TIMER_IRQ) # {}

\* the machine after the guest's enable of an IRQ whose injection was
\* dropped on the machine mc
EnabledAfterDrop(mc) == enable_irq(inject_irq(mc, VT_TIMER_IRQ), VT_TIMER_IRQ)

\* C36: a dropped or failed injection does not block later delivery: if the
\* virtual timer's IRQ was injected while distributor-DISABLED or while no
\* list register was free, then once the IRQ is enabled and a list register
\* is free, the next inject_irq of the virtual timer's IRQ places it in a
\* list register instead of failing with DoubleInject.  Checked for
\* inject_irq on every reachable machine on which the IRQ is deliverable
\* (an IRQ that is PENDING there with no list register holding it is one
\* whose injection was dropped or failed), and for the injection that
\* follows a dropped one and the enable.
C36_LaterDelivery ==
    /\ (booted /\ Deliverable(Mc)) => Placed(inject_irq(Mc, VT_TIMER_IRQ))
    /\ (booted
        /\ irqs[VT_TIMER_IRQ].distr_state = "DISABLED"
        /\ irqs[VT_TIMER_IRQ].cpu_state = "INACTIVE"
        /\ InFlightWith(state, VT_TIMER_IRQ) = {}
        /\ FreeLrs(state) # {}) =>
          Placed(inject_irq(EnabledAfterDrop(Mc), VT_TIMER_IRQ))

(***************************************************************************)
(* The host's timer interrupt and the pending virtual one                  *)
(***************************************************************************)
\* C37: state.timer_irq = true implies that the cpu_state of the virtual
\* timer's IRQ is INACTIVE: across any interleaving of ISENABLER/ICENABLER
\* writes of bit 27, injections and maintenance EOIs the host's virtual
\* timer interrupt is never re-enabled while the previous injection is
\* still PENDING, so that a host IRQ exit for the timer cannot hit
\* DoubleInject.
C37_TimerIrqInactive ==
    (booted /\ state.timer_irq) => irqs[VT_TIMER_IRQ].cpu_state = "INACTIVE"


(***************************************************************************)
(* The virtual ids of the list registers in flight                         *)
(***************************************************************************)
\* the list registers in flight (elrsr0 bit clear)
InFlight(st) == LrRange \ FreeLrs(st)

\* C38: no two list registers in flight (elrsr0 bit clear) hold the same
\* virtual id, in every state reached from start() by injections and
\* maintenance EOIs.
C38_DistinctVirtIds ==
    booted =>
        \A i \in InFlight(state) : \A j \in InFlight(state) :
            LrVirtId(state.gic_lr[i]) = LrVirtId(state.gic_lr[j]) => i = j


(***************************************************************************)
(* The halted VCPU                                                         *)
(***************************************************************************)
\* the runs of the signal handlers that can start while the VCPU is halted,
\* the terminal with and without bytes to deliver
HaltedRuns ==
    ExitRuns \cup TimeoutRuns \cup TerminalRuns
        \cup {handle_vm(Mc, "terminal", ins) : ins \in Inputs}

\* inject_irq has completed its injection step for irq: it did not throw, did
\* not drop the IRQ, and a list register in flight holds it
Injected(m, irq) ==
    /\ ~m.thrown
    /\ ~m.warned
    /\ InFlightWith(m.st, irq) # {}

\* a run of handle_vm on the halted VCPU: nothing is dispatched; the VCPU
\* is woken only by an injection that completed, and it is resumed exactly
\* when it was woken
HaltedRun(m) ==
    /\ m.disp = "none"
    /\ ~m.paused
    /\ m.active => (Injected(m, VT_TIMER_IRQ) \/ Injected(m, PL011_0_IRQ))
    /\ m.ran = m.active
    /\ m.running = m.active

\* C39: the VCPU is never resumed while halted: from a successful WFI
\* (active = false) until an inject_irq call completes its injection step,
\* no run of handle_vm (for a timer or terminal event, those whose injection
\* is dropped or fails included) calls run on the VCPU or dispatches
\* cpu_exception; and the VCPU is never left halted after a successful
\* injection.
C39_NoResumeWhileHalted ==
    /\ ~active => ~running
    /\ (booted /\ ~active) => \A m \in HaltedRuns : HaltedRun(m)
    /\ (booted /\ ~active) =>
          \A irq \in {VT_TIMER_IRQ, PL011_0_IRQ} :
              Injected(inject_irq(Mc, irq), irq) => inject_irq(Mc, irq).active

\* a timer event on the halted VCPU whose injection was dropped: the VCPU
\* stays halted and is not resumed
C39_Witness ==
    /\ out.ev = "timeout"
    /\ out.warned
    /\ out.disp = "none"
    /\ ~out.ran
    /\ ~active
    /\ ~running


(***************************************************************************)
(* WFE                                                                     *)
(***************************************************************************)
\* the block holds a trap of the WFI class with syndrome bit 0 set
WfeTrap(st) ==
    /\ st.cpu_exception = ExcTRAP
    /\ EcGet(st.hsr) = Ec.WFI
    /\ Bits(st.hsr, 0, 1) = 1

\* m failed with the WFE error and left the VCPU, the one-shot and the block
\* of mc as they were
WfeRefused(mc, m) ==
    /\ m.thrown
    /\ m.err = "WFE"
    /\ m.active = mc.active
    /\ m.timer = mc.timer
    /\ Triggers(m.told) = <<>>
    /\ m.st = mc.st

\* C40: a trap of the WFI class whose syndrome bit 0 is set (WFE) fails with
\* an error and has no effect: the VCPU is not halted (active stays true),
\* the host's timer is not armed and the PC is not advanced.  Checked for
\* _handle_wfi on every reachable machine whose syndrome has bit 0 set, and
\* for the run of the exit handler on a WFE trap.
C40_WfeRefused ==
    /\ Bits(state.hsr, 0, 1) = 1 => WfeRefused(Mc, handle_wfi(Mc))
    /\ (booted /\ active /\ WfeTrap(state)) =>
          \A m \in ExitRuns :
              /\ WfeRefused(Mc, m)
              /\ m.active
              /\ Ip(m.st) = Ip(state)
              /\ m.disp = "WFI"

C40_Witness ==
    /\ out.ev = "exit"
    /\ out.disp = "WFI"
    /\ out.thrown
    /\ out.err = "WFE"
    /\ WfeTrap(state)
    /\ active
    /\ out.ip1 = out.ip0
    /\ ~timer.armed

=============================================================================
